---------------------------- MODULE Spec2Model ----------------------------
(***************************************************************************)
(* The per-period portfolio state machine of SparplanSimulator             *)
(* (src/python/Gutachten.py) and the simulation loop of the script         *)
(* src/python/250720_final.py.                                             *)
(*                                                                         *)
(* Representation.  The program computes in floating point.  Here money is *)
(* an integer number of euros and a rate is an integer number of basis     *)
(* points (1/RateDen); every product or quotient the code assigns to a     *)
(* name is rounded once, to the nearest integer, half away from zero       *)
(* (RoundDiv).  The code's epsilon 1e-9 lies below one unit, so a          *)
(* comparison `x > 1e-9` of the code is `x > Eps` with Eps = 0 here.       *)
(* A date is the number of months since 2025-01-01 (every date the         *)
(* simulator makes is the first of a month).                               *)
(***************************************************************************)
EXTENDS Integers, Sequences, FiniteSets, TLC

\* --------------------------------------------------------------- bounds
\* Horizon in years of the simulated plans (params.laufzeit).
MaxLaufzeit == 2

\* ------------------------------------------------------ program constants
MonthsPerYear == 12

\* rates are fractions with this denominator (basis points)
RateDen == 10^4
\* the code's 1e-9, in whole units
Eps == 0

\* ------------------------------------------------------------ arithmetic
Abs(x) == IF x < 0 THEN -x ELSE x
Min(a, b) == IF a <= b THEN a ELSE b
Max(a, b) == IF a >= b THEN a ELSE b

\* a / b for b > 0, rounded to the nearest integer, half away from zero
RoundDiv(a, b) ==
    LET q == Abs(a) \div b
        r == Abs(a) % b
        n == IF 2 * r >= b THEN q + 1 ELSE q
    IN  IF a < 0 THEN -n ELSE n

\* x * n / d
MulDiv(x, n, d) == RoundDiv(x * n, d)

\* x * rate, rate in basis points
Rate(x, rate) == MulDiv(x, rate, RateDen)

RECURSIVE SumValues(_)
SumValues(q) == IF q = <<>> THEN 0 ELSE Head(q).value + SumValues(Tail(q))

RECURSIVE SumInvested(_)
SumInvested(q) == IF q = <<>> THEN 0 ELSE Head(q).amount_invested + SumInvested(Tail(q))

RECURSIVE SumVorab(_)
SumVorab(q) ==
    IF q = <<>> THEN 0
    ELSE Head(q).vorabpauschalen_bereits_versteuert + SumVorab(Tail(q))

\* ------------------------------------------------------------ parameters
\* DepotParameter / VersicherungParameter.  A field the parameter class of
\* the mode does not have is read by the code with getattr(..., 0.0): it is 0.
\* death_year = 0 stands for None (both are falsy in the code).
\* kosten = "hoch": fixed costs that exceed the first contributions, a large
\* extra payment and a withdrawal plan that starts in its second year.
\* entnahme_plan maps a plan year to the withdrawal of a year; the empty
\* function stands for None and {}.
MakeParams(vers, kosten, dy, fsa, init, modus) ==
    [ versicherung_modus |-> vers,
      eintrittsalter |-> 35,
      initial_investment |-> init,
      monthly_investment |-> 400,
      laufzeit |-> MaxLaufzeit,
      beitragszahldauer |-> 1,
      monthly_dynamik_rate |-> 500,
      dynamik_turnus_monate |-> 6,
      sonderzahlung_jahr |-> 1,
      sonderzahlung_betrag |-> IF kosten = "hoch" THEN 20000 ELSE 1000,
      regel_sonderzahlung_betrag |-> 0,
      regel_sonderzahlung_turnus_jahre |-> 0,
      annual_withdrawal |-> 6000,
      entnahme_plan |-> IF kosten = "hoch" THEN (2 :> 3000) ELSE <<>>,
      entnahme_modus |-> modus,
      abgeltungssteuer_rate |-> 2500,
      soli_zuschlag_on_abgeltungssteuer |-> 550,
      kirchensteuer_on_abgeltungssteuer |-> 0,
      persoenlicher_steuersatz |-> 3000,
      freistellungsauftrag_jahr |-> fsa,
      freistellungs_pauschbetrag_anpassung_rate |-> 200,
      death_year |-> dy,
      ausgabeaufschlag |-> IF vers THEN 0 ELSE 20,
      monthly_ausgabeaufschlag |-> IF vers THEN 0 ELSE 20,
      ruecknahmeabschlag |-> IF vers THEN 0 ELSE 20,
      ter |-> 45,
      serviceentgelt |-> IF vers THEN 0 ELSE 119,
      stueckkosten |-> IF vers THEN 0 ELSE IF kosten = "hoch" THEN 5040 ELSE 45,
      teilfreistellung |-> IF vers THEN 0 ELSE 3000,
      basiszins |-> IF vers THEN 0 ELSE 255,
      rebalancing_rate |-> IF vers THEN 0 ELSE 2000,
      guthabenkosten |-> IF vers THEN 18 ELSE 0,
      abschlusskosten_einmalig_prozent |-> IF vers THEN 250 ELSE 0,
      abschlusskosten_monatlich_prozent |->
          IF vers THEN (IF kosten = "hoch" THEN 1000 ELSE 252) ELSE 0,
      verrechnungsdauer_monate |->
          IF vers THEN (IF kosten = "hoch" THEN 1 ELSE 6) ELSE 0,
      verwaltungskosten_monatlich_prozent |-> IF vers THEN 900 ELSE 0 ]

KostenProfile == {"normal", "hoch"}
DeathYears == {0, 1}
Freistellungsauftraege == {0, 20, 1000}
InitialInvestments == {0, 10000}
EntnahmeModi == {"monatlich", "jaehrlich"}
\* (1 + annual_return) ** (1/12) - 1, in basis points per month
MonthlyReturns == {-100, 100}
\* the monthly inflation draw, in basis points
InflationRates == {17}

\* laufzeit, in years
Laufzeiten == 0..MaxLaufzeit

ParamSet ==
    { [ MakeParams(vers, kosten, dy, fsa, init, modus) EXCEPT !.laufzeit = l ] :
        vers \in BOOLEAN, kosten \in KostenProfile, dy \in DeathYears,
        fsa \in Freistellungsauftraege, init \in InitialInvestments,
        modus \in EntnahmeModi, l \in Laufzeiten }

\* ----------------------------------------------------------------- state
VARIABLES
    params,                 \* self.params
    monthly_return,         \* self.monthly_return
    monthly_inflation_rate, \* self.monthly_inflation_rates[month]
    month,                  \* the loop variable of run_simulation
    pc,                     \* the position inside the period
    portfolio,              \* self.portfolio, the FIFO ledger of lots
    next_id,                \* history: number of lots created so far
    freistellungs_topf,     \* self.freistellungs_topf
    monthly_investment,     \* self.monthly_investment
    kum,                    \* the cumulative counters (self.*_summe, ...)
    kumulierte_inflation_factor,
    death_triggered,
    abschlusskosten_rest,
    monatliche_abschlusskosten_fix,
    verrechnungs_monate_verbleibend,
    cashflows, real_cashflows, cashflow_dates,
    monatliche_kosten_logs,
    rebalancing_log,
    loc,                    \* the locals of the handler that is running
    final,                  \* the locals of _finalisiere_simulation
                            \* (250720_final.py: total_costs_paid)
    mc                      \* SparplanSimulator_250819.py: the locals of
                            \* run_monte_carlo and self.dynamic_returns

vars == << params, monthly_return, monthly_inflation_rate, month, pc, portfolio,
           next_id, freistellungs_topf, monthly_investment, kum,
           kumulierte_inflation_factor, death_triggered, abschlusskosten_rest,
           monatliche_abschlusskosten_fix, verrechnungs_monate_verbleibend,
           cashflows, real_cashflows, cashflow_dates, monatliche_kosten_logs,
           rebalancing_log, loc, final, mc >>

\* self.full_tax_rate
FullTaxRate(p) ==
    MulDiv(p.abgeltungssteuer_rate,
           RateDen + p.soli_zuschlag_on_abgeltungssteuer
                   + p.kirchensteuer_on_abgeltungssteuer,
           RateDen)

\* x / self.kumulierte_inflation_factor
Real(x) == MulDiv(x, RateDen, kumulierte_inflation_factor)

\* a new lot dict; id, accrual_taxed, accrual_tax_charged and vorab_consumed are
\* history fields: the lot's number, the amount of the lot's yield subjected to
\* accrual tax so far, the accrual tax charged against it so far, and the
\* already-taxed accrual that its sales took out of it so far
NewLot(id, date, netto) ==
    [ id |-> id, date |-> date, amount_invested |-> netto, value |-> netto,
      start_of_prev_year_value |-> netto,
      vorabpauschalen_bereits_versteuert |-> 0,
      accrual_taxed |-> 0, accrual_tax_charged |-> 0, vorab_consumed |-> 0 ]

KumZero ==
    [ ausgabeaufschlag_summe |-> 0, ruecknahmeabschlag_summe |-> 0,
      stueckkosten_summe |-> 0, abschlusskosten_summe |-> 0,
      verwaltungskosten_summe |-> 0, guthabenkosten_summe |-> 0,
      ter_summe |-> 0, serviceentgelt_summe |-> 0, kumulierte_entnahmen |-> 0,
      total_tax_paid |-> 0, total_withdrawal_tax_paid |-> 0 ]

NoLoc == [ handler |-> "none" ]

\* the locals of one iteration of a sale loop before the first iteration;
\* dropped (the value of the lots popped without a sale), verkauft (the sum
\* of the reductions of the lot values by the sales) and sales (the number of
\* sales of a withdrawal) are history fields
NoSale ==
    [ sold |-> FALSE, entry_vorher |-> NewLot(-1, 0, 0), entry |-> NewLot(-1, 0, 0),
      sell_value |-> 0, cost_basis |-> 0, steuerbar |-> 0, steuer |-> 0 ]
NoFinal == [ done |-> FALSE ]
\* no Monte-Carlo driver is running
NoMc == [ i |-> -1 ]

\* mutant of IsJanuary: every period counts as a January
IsJanuaryImmer(m) == m >= 0

\* current_date.month == 1
IsJanuary(m) == m % MonthsPerYear = 0
IsDecember(m) == m % MonthsPerYear = MonthsPerYear - 1
\* current_date.year - 2025
CurrentYear(m) == m \div MonthsPerYear

\* the state after SparplanSimulator.__init__
Init ==
    /\ params \in ParamSet
    /\ monthly_return \in MonthlyReturns
    /\ monthly_inflation_rate \in InflationRates
    /\ month = 0
    /\ pc = "init"
    /\ portfolio = <<>>
    /\ next_id = 0
    /\ freistellungs_topf = params.freistellungsauftrag_jahr
    /\ monthly_investment = params.monthly_investment
    /\ kum = KumZero
    /\ kumulierte_inflation_factor = RateDen
    /\ death_triggered = FALSE
    /\ abschlusskosten_rest = 0
    /\ monatliche_abschlusskosten_fix = 0
    /\ verrechnungs_monate_verbleibend = 0
    /\ cashflows = <<>>
    /\ real_cashflows = <<>>
    /\ cashflow_dates = <<>>
    /\ monatliche_kosten_logs = <<>>
    /\ rebalancing_log = <<>>
    /\ loc = NoLoc
    /\ final = NoFinal
    /\ mc = NoMc

\* ------------------------------------------------- _initialisiere_simulation
InitialisiereSimulation ==
    /\ pc = "init"
    /\ LET abschlusskosten_einmalig ==
               Rate(params.initial_investment, params.abschlusskosten_einmalig_prozent)
           abschlusskosten_monatlich_total ==
               Rate(params.monthly_investment * params.beitragszahldauer * MonthsPerYear,
                    params.abschlusskosten_monatlich_prozent)
           rest == abschlusskosten_einmalig + abschlusskosten_monatlich_total
           aufschlag == Rate(params.initial_investment, params.ausgabeaufschlag)
           nettobetrag == params.initial_investment - aufschlag
       IN  /\ IF params.versicherung_modus
              THEN /\ abschlusskosten_rest' = rest
                   /\ IF params.verrechnungsdauer_monate > 0
                      THEN /\ monatliche_abschlusskosten_fix' =
                                  RoundDiv(rest, params.verrechnungsdauer_monate)
                           /\ verrechnungs_monate_verbleibend' =
                                  params.verrechnungsdauer_monate
                      ELSE UNCHANGED << monatliche_abschlusskosten_fix,
                                        verrechnungs_monate_verbleibend >>
              ELSE UNCHANGED << abschlusskosten_rest, monatliche_abschlusskosten_fix,
                                verrechnungs_monate_verbleibend >>
           /\ kum' = [kum EXCEPT !.ausgabeaufschlag_summe = @ + aufschlag]
           /\ cashflows' = Append(cashflows, -params.initial_investment)
           /\ real_cashflows' = Append(real_cashflows, -params.initial_investment)
           /\ cashflow_dates' = Append(cashflow_dates, 0)
           /\ IF nettobetrag > 0
              THEN /\ portfolio' = Append(portfolio, NewLot(next_id, 0, nettobetrag))
                   /\ next_id' = next_id + 1
              ELSE UNCHANGED << portfolio, next_id >>
    /\ pc' = IF params.laufzeit * MonthsPerYear > 0 THEN "monat_start" ELSE "finale"
    /\ UNCHANGED << params, mc, monthly_return, monthly_inflation_rate, month,
                    freistellungs_topf, monthly_investment,
                    kumulierte_inflation_factor, death_triggered,
                    monatliche_kosten_logs, rebalancing_log, loc, final >>

\* mutant of Stages: growth is applied before the fees are deducted
StagesGrowthBeforeFees ==
    << "monat_start", "dynamik", "sonderzahlung", "sparrate", "wertentwicklung",
       "kosten", "inflation", "steuern", "rebalancing", "entnahme",
       "log", "snapshot" >>

\* ---------------------------------------------------------- _simuliere_monat
\* the order in which _simuliere_monat runs the steps of a period
Stages ==
    << "monat_start", "dynamik", "sonderzahlung", "sparrate", "kosten",
       "wertentwicklung", "inflation", "steuern", "rebalancing", "entnahme",
       "log", "snapshot" >>

StageIndex(s) == CHOOSE i \in 1..Len(Stages) : Stages[i] = s

\* the step that follows step s inside a period
NextStage(s) == Stages[StageIndex(s) + 1]

\* mutant of Freibetrag: what is left of last year's allowance is carried over
FreibetragMitUebertrag(p, year) ==
    freistellungs_topf +
    MulDiv(p.freistellungsauftrag_jahr,
           RateDen + year * p.freistellungs_pauschbetrag_anpassung_rate, RateDen)

\* freistellungsauftrag_jahr * (1 + anpassung_rate) ** (year - 2025)
RECURSIVE Freibetrag(_, _)
Freibetrag(p, year) ==
    IF year = 0 THEN p.freistellungsauftrag_jahr
    ELSE MulDiv(Freibetrag(p, year - 1),
                RateDen + p.freistellungs_pauschbetrag_anpassung_rate, RateDen)

\* _handle_death: in Versicherung mode the ledger is paid out and reinvested
\* as one new lot
HandleDeath(q, p, triggered, id, date) ==
    IF ~p.versicherung_modus \/ triggered THEN q
    ELSE LET depotwert_brutto == SumValues(q)
             ruecknahmeabschlag_val == Rate(depotwert_brutto, p.ruecknahmeabschlag)
             total_netto_entnahme == depotwert_brutto - ruecknahmeabschlag_val
         IN  IF total_netto_entnahme > 0
             THEN << NewLot(id, date, total_netto_entnahme) >>
             ELSE <<>>

\* lines 193-204: the mortality event and the January reset of the allowance;
\* topf_vorher is a history field, the bucket as the period found it
MonatStart ==
    /\ pc = "monat_start"
    /\ LET death == /\ params.death_year # 0
                    /\ CurrentYear(month) = params.death_year
                    /\ ~death_triggered
       IN  /\ portfolio' = IF death
                           THEN HandleDeath(portfolio, params, death_triggered,
                                            next_id, month)
                           ELSE portfolio
           /\ next_id' = IF death /\ portfolio' # portfolio THEN next_id + 1 ELSE next_id
           /\ death_triggered' = (death_triggered \/ death)
    /\ freistellungs_topf' = IF IsJanuary(month)
                             THEN Freibetrag(params, CurrentYear(month))
                             ELSE freistellungs_topf
    /\ pc' = NextStage("monat_start")
    /\ loc' = [ handler |-> "monat_start", topf_vorher |-> freistellungs_topf ]
    /\ UNCHANGED << params, mc, monthly_return, monthly_inflation_rate, month,
                    monthly_investment, kum, kumulierte_inflation_factor,
                    abschlusskosten_rest, monatliche_abschlusskosten_fix,
                    verrechnungs_monate_verbleibend, cashflows, real_cashflows,
                    cashflow_dates, monatliche_kosten_logs, rebalancing_log, final >>

\* ------------------------------------------------ _handle_monthly_investment
\* lines 276-277: escalation of the recurring contribution
Dynamik ==
    /\ pc = "dynamik"
    /\ monthly_investment' =
           IF month > 0 /\ month % params.dynamik_turnus_monate = 0
           THEN MulDiv(monthly_investment, RateDen + params.monthly_dynamik_rate, RateDen)
           ELSE monthly_investment
    /\ pc' = NextStage("dynamik")
    /\ UNCHANGED << params, mc, monthly_return, monthly_inflation_rate, month, portfolio,
                    next_id, freistellungs_topf, kum, kumulierte_inflation_factor,
                    death_triggered, abschlusskosten_rest,
                    monatliche_abschlusskosten_fix, verrechnungs_monate_verbleibend,
                    cashflows, real_cashflows, cashflow_dates,
                    monatliche_kosten_logs, rebalancing_log, loc, final >>

\* lines 278-294: the one-off and the recurring extra payment
Sonderzahlung ==
    /\ pc = "sonderzahlung"
    /\ LET is_einmalig == month = params.sonderzahlung_jahr * MonthsPerYear
           is_regelmaessig ==
               /\ params.regel_sonderzahlung_turnus_jahre > 0
               /\ month > 0
               /\ month % (params.regel_sonderzahlung_turnus_jahre * MonthsPerYear) = 0
           betrag == IF is_einmalig THEN params.sonderzahlung_betrag
                     ELSE params.regel_sonderzahlung_betrag
           aufschlag == Rate(betrag, params.ausgabeaufschlag)
           netto == betrag - aufschlag
       IN  IF (is_einmalig \/ is_regelmaessig) /\ betrag > 0
           THEN /\ cashflows' = Append(cashflows, -betrag)
                /\ real_cashflows' = Append(real_cashflows, Real(-betrag))
                /\ cashflow_dates' = Append(cashflow_dates, month)
                /\ kum' = [kum EXCEPT !.ausgabeaufschlag_summe = @ + aufschlag]
                /\ portfolio' = Append(portfolio, NewLot(next_id, month, netto))
                /\ next_id' = next_id + 1
           ELSE UNCHANGED << cashflows, real_cashflows, cashflow_dates, kum,
                             portfolio, next_id >>
    /\ pc' = NextStage("sonderzahlung")
    /\ UNCHANGED << params, mc, monthly_return, monthly_inflation_rate, month,
                    freistellungs_topf, monthly_investment,
                    kumulierte_inflation_factor, death_triggered,
                    abschlusskosten_rest, monatliche_abschlusskosten_fix,
                    verrechnungs_monate_verbleibend, monatliche_kosten_logs,
                    rebalancing_log, loc, final >>

\* mutant of Sparrate: the contribution is appended to the cash flows without
\* its date
SparrateOhneDatum ==
    /\ pc = "sparrate"
    /\ LET aufschlag == Rate(monthly_investment, params.monthly_ausgabeaufschlag)
           netto == monthly_investment - aufschlag
       IN  IF month < params.beitragszahldauer * MonthsPerYear
           THEN /\ kum' = [kum EXCEPT !.ausgabeaufschlag_summe = @ + aufschlag]
                /\ cashflows' = Append(cashflows, -monthly_investment)
                /\ real_cashflows' = Append(real_cashflows, Real(-monthly_investment))
                /\ cashflow_dates' = cashflow_dates
                /\ portfolio' = Append(portfolio, NewLot(next_id, month, netto))
                /\ next_id' = next_id + 1
           ELSE UNCHANGED << kum, cashflows, real_cashflows, cashflow_dates,
                             portfolio, next_id >>
    /\ pc' = NextStage("sparrate")
    /\ UNCHANGED << params, mc, monthly_return, monthly_inflation_rate, month,
                    freistellungs_topf, monthly_investment,
                    kumulierte_inflation_factor, death_triggered,
                    abschlusskosten_rest, monatliche_abschlusskosten_fix,
                    verrechnungs_monate_verbleibend, monatliche_kosten_logs,
                    rebalancing_log, loc, final >>

\* lines 296-307: the recurring contribution
Sparrate ==
    /\ pc = "sparrate"
    /\ LET aufschlag == Rate(monthly_investment, params.monthly_ausgabeaufschlag)
           netto == monthly_investment - aufschlag
       IN  IF month < params.beitragszahldauer * MonthsPerYear
           THEN /\ kum' = [kum EXCEPT !.ausgabeaufschlag_summe = @ + aufschlag]
                /\ cashflows' = Append(cashflows, -monthly_investment)
                /\ real_cashflows' = Append(real_cashflows, Real(-monthly_investment))
                /\ cashflow_dates' = Append(cashflow_dates, month)
                /\ portfolio' = Append(portfolio, NewLot(next_id, month, netto))
                /\ next_id' = next_id + 1
           ELSE UNCHANGED << kum, cashflows, real_cashflows, cashflow_dates,
                             portfolio, next_id >>
    /\ pc' = NextStage("sparrate")
    /\ UNCHANGED << params, mc, monthly_return, monthly_inflation_rate, month,
                    freistellungs_topf, monthly_investment,
                    kumulierte_inflation_factor, death_triggered,
                    abschlusskosten_rest, monatliche_abschlusskosten_fix,
                    verrechnungs_monate_verbleibend, monatliche_kosten_logs,
                    rebalancing_log, loc, final >>

\* mutant of Kosten: the instalment is charged whether or not the
\* amortization window is still open
KostenOhneFenster(p, depotwert_brutto, mi, verbleibend, fix) ==
    LET ter_kosten == MulDiv(depotwert_brutto, p.ter, RateDen * MonthsPerYear)
        abschlusskosten_monatlich == fix
        verwaltungskosten_monatlich == Rate(mi, p.verwaltungskosten_monatlich_prozent)
        guthabenkosten_monatlich ==
            MulDiv(depotwert_brutto, p.guthabenkosten, RateDen * MonthsPerYear)
        serviceentgelt_monatlich ==
            MulDiv(depotwert_brutto, p.serviceentgelt, RateDen * MonthsPerYear)
        ausgabeaufschlag_monatlich ==
            Rate(p.monthly_investment, p.monthly_ausgabeaufschlag)
        stueckkosten_monatlich == RoundDiv(p.stueckkosten, MonthsPerYear)
    IN  IF p.versicherung_modus
        THEN [ ter |-> ter_kosten, abschluss |-> abschlusskosten_monatlich,
               verwaltung |-> verwaltungskosten_monatlich,
               guthaben |-> guthabenkosten_monatlich,
               service |-> serviceentgelt_monatlich, ausgabe |-> 0, stueck |-> 0,
               gesamtkosten_monatlich |->
                   ter_kosten + abschlusskosten_monatlich
                   + verwaltungskosten_monatlich + guthabenkosten_monatlich
                   + serviceentgelt_monatlich ]
        ELSE [ ter |-> ter_kosten, abschluss |-> 0, verwaltung |-> 0, guthaben |-> 0,
               service |-> serviceentgelt_monatlich,
               ausgabe |-> ausgabeaufschlag_monatlich,
               stueck |-> stueckkosten_monatlich,
               gesamtkosten_monatlich |->
                   ter_kosten + ausgabeaufschlag_monatlich + stueckkosten_monatlich
                   + serviceentgelt_monatlich ]

\* ----------------------------------------------- _monatliche_kosten_abziehen
\* gesamtkosten_monatlich and the increments of the fee counters, for the
\* pre-fee ledger total depotwert_brutto
Kosten(p, depotwert_brutto, mi, verbleibend, fix) ==
    LET ter_kosten == MulDiv(depotwert_brutto, p.ter, RateDen * MonthsPerYear)
        abschlusskosten_monatlich == IF verbleibend > 0 THEN fix ELSE 0
        verwaltungskosten_monatlich == Rate(mi, p.verwaltungskosten_monatlich_prozent)
        guthabenkosten_monatlich ==
            MulDiv(depotwert_brutto, p.guthabenkosten, RateDen * MonthsPerYear)
        serviceentgelt_monatlich ==
            MulDiv(depotwert_brutto, p.serviceentgelt, RateDen * MonthsPerYear)
        ausgabeaufschlag_monatlich ==
            Rate(p.monthly_investment, p.monthly_ausgabeaufschlag)
        stueckkosten_monatlich == RoundDiv(p.stueckkosten, MonthsPerYear)
    IN  IF p.versicherung_modus
        THEN [ ter |-> ter_kosten, abschluss |-> abschlusskosten_monatlich,
               verwaltung |-> verwaltungskosten_monatlich,
               guthaben |-> guthabenkosten_monatlich,
               service |-> serviceentgelt_monatlich, ausgabe |-> 0, stueck |-> 0,
               gesamtkosten_monatlich |->
                   ter_kosten + abschlusskosten_monatlich
                   + verwaltungskosten_monatlich + guthabenkosten_monatlich
                   + serviceentgelt_monatlich ]
        ELSE [ ter |-> ter_kosten, abschluss |-> 0, verwaltung |-> 0, guthaben |-> 0,
               service |-> serviceentgelt_monatlich,
               ausgabe |-> ausgabeaufschlag_monatlich,
               stueck |-> stueckkosten_monatlich,
               gesamtkosten_monatlich |->
                   ter_kosten + ausgabeaufschlag_monatlich + stueckkosten_monatlich
                   + serviceentgelt_monatlich ]

\* mutant of ProportionalDeduction: the fee is split evenly over the lots
EqualDeduction(q, gesamtkosten, depotwert_brutto) ==
    IF depotwert_brutto > Eps
    THEN [ i \in 1..Len(q) |->
             [ q[i] EXCEPT !.value = @ - RoundDiv(gesamtkosten, Len(q)) ] ]
    ELSE q

\* mutant of ProportionalDeduction: without the guard of line 348 the fee is
\* taken from the lots of a ledger whose total is not above the epsilon, too
ProportionalDeductionOhneGuard(q, gesamtkosten, depotwert_brutto) ==
    IF depotwert_brutto > Eps
    THEN [ i \in 1..Len(q) |->
             [ q[i] EXCEPT !.value = @ - MulDiv(@, gesamtkosten, depotwert_brutto) ] ]
    ELSE [ i \in 1..Len(q) |->
             [ q[i] EXCEPT !.value = @ - RoundDiv(gesamtkosten, Len(q)) ] ]

\* lines 348-351: every lot is reduced by the same fraction of its value
ProportionalDeduction(q, gesamtkosten, depotwert_brutto) ==
    IF depotwert_brutto > Eps
    THEN [ i \in 1..Len(q) |->
             [ q[i] EXCEPT !.value = @ - MulDiv(@, gesamtkosten, depotwert_brutto) ] ]
    ELSE q

MonatlicheKostenAbziehen ==
    /\ pc = "kosten"
    /\ LET depotwert_brutto == SumValues(portfolio)
           k == Kosten(params, depotwert_brutto, monthly_investment,
                       verrechnungs_monate_verbleibend, monatliche_abschlusskosten_fix)
       IN  /\ kum' = [kum EXCEPT !.ter_summe = @ + k.ter,
                                 !.abschlusskosten_summe = @ + k.abschluss,
                                 !.verwaltungskosten_summe = @ + k.verwaltung,
                                 !.guthabenkosten_summe = @ + k.guthaben,
                                 !.serviceentgelt_summe = @ + k.service,
                                 !.ausgabeaufschlag_summe = @ + k.ausgabe,
                                 !.stueckkosten_summe = @ + k.stueck]
           /\ verrechnungs_monate_verbleibend' =
                  IF params.versicherung_modus /\ verrechnungs_monate_verbleibend > 0
                  THEN verrechnungs_monate_verbleibend - 1
                  ELSE verrechnungs_monate_verbleibend
           /\ portfolio' = ProportionalDeduction(portfolio, k.gesamtkosten_monatlich,
                                                 depotwert_brutto)
           /\ loc' = [ handler |-> "kosten", depotwert_brutto |-> depotwert_brutto,
                       gesamtkosten_monatlich |-> k.gesamtkosten_monatlich,
                       vorher |-> portfolio ]
    /\ pc' = NextStage("kosten")
    /\ UNCHANGED << params, mc, monthly_return, monthly_inflation_rate, month, next_id,
                    freistellungs_topf, monthly_investment,
                    kumulierte_inflation_factor, death_triggered,
                    abschlusskosten_rest, monatliche_abschlusskosten_fix, cashflows,
                    real_cashflows, cashflow_dates, monatliche_kosten_logs,
                    rebalancing_log, final >>

\* mutant of GrowLot: the return is earned on the amount invested only
GrowLotEinfach(lot, r) == [ lot EXCEPT !.value = @ + Rate(lot.amount_invested, r) ]

\* lines 211-212: uniform growth
GrowLot(lot, r) == [ lot EXCEPT !.value = MulDiv(@, RateDen + r, RateDen) ]

Wertentwicklung ==
    /\ pc = "wertentwicklung"
    /\ portfolio' = [ i \in 1..Len(portfolio) |-> GrowLot(portfolio[i], monthly_return) ]
    /\ pc' = NextStage("wertentwicklung")
    /\ loc' = NoLoc
    /\ UNCHANGED << params, mc, monthly_return, monthly_inflation_rate, month, next_id,
                    freistellungs_topf, monthly_investment, kum,
                    kumulierte_inflation_factor, death_triggered,
                    abschlusskosten_rest, monatliche_abschlusskosten_fix,
                    verrechnungs_monate_verbleibend, cashflows, real_cashflows,
                    cashflow_dates, monatliche_kosten_logs, rebalancing_log, final >>

\* line 214: the inflation deflator
Inflation ==
    /\ pc = "inflation"
    /\ kumulierte_inflation_factor' =
           MulDiv(kumulierte_inflation_factor, RateDen + monthly_inflation_rate, RateDen)
    /\ pc' = NextStage("inflation")
    /\ UNCHANGED << params, mc, monthly_return, monthly_inflation_rate, month, portfolio,
                    next_id, freistellungs_topf, monthly_investment, kum,
                    death_triggered, abschlusskosten_rest,
                    monatliche_abschlusskosten_fix, verrechnungs_monate_verbleibend,
                    cashflows, real_cashflows, cashflow_dates,
                    monatliche_kosten_logs, rebalancing_log, loc, final >>

\* mutant of Steuerfreibetrag: the whole taxable amount is taken from the
\* allowance, whatever is left of it
SteuerfreibetragUnbounded(topf, steuerbar) == steuerbar

\* ------------------------------------------------------------ tax helpers
\* the part of a taxable amount that the allowance bucket covers
\* (steuerfreibetrag_used = min(self.freistellungs_topf, ...))
Steuerfreibetrag(topf, steuerbar) == Min(topf, steuerbar)

\* gain * (1 - teilfreistellung)
NachTeilfreistellung(gain, p) == MulDiv(gain, RateDen - p.teilfreistellung, RateDen)

\* --------------------------------------------------------------- _handle_taxes
\* the body of the loop over the lots: the annual accrual tax of one lot
AccrualLot(entry, topf, p) ==
    LET start_value == entry.start_of_prev_year_value
        fiktiver_ertrag == Rate(start_value, p.basiszins)
        real_ertrag == entry.value - start_value
        steuerbarer_ertrag == Min(fiktiver_ertrag, real_ertrag)
        zu_versteuern_temp == NachTeilfreistellung(steuerbarer_ertrag, p)
        steuerfreibetrag_used == Steuerfreibetrag(topf, Max(0, zu_versteuern_temp))
        zu_versteuern == Max(0, zu_versteuern_temp - steuerfreibetrag_used)
        steuer == Rate(zu_versteuern, FullTaxRate(p))
    IN  [ topf |-> topf - steuerfreibetrag_used,
          steuer |-> IF steuer > 0 THEN steuer ELSE 0,
          entry |-> IF steuer > 0
                    THEN [ entry EXCEPT
                             !.value = @ - steuer,
                             !.vorabpauschalen_bereits_versteuert = @ + zu_versteuern,
                             !.accrual_taxed = @ + zu_versteuern,
                             !.accrual_tax_charged = @ + steuer ]
                    ELSE entry ]

\* the loop over the lots, oldest first: the lots after the accrual tax, the
\* allowance left and the tax charged
RECURSIVE AccrualAll(_, _, _)
AccrualAll(q, topf, p) ==
    IF q = <<>> THEN [ q |-> <<>>, topf |-> topf, steuer |-> 0 ]
    ELSE LET one == AccrualLot(Head(q), topf, p)
             rest == AccrualAll(Tail(q), one.topf, p)
         IN  [ q |-> << one.entry >> \o rest.q, topf |-> rest.topf,
               steuer |-> one.steuer + rest.steuer ]

HandleTaxes ==
    /\ pc = "steuern"
    /\ IF ~params.versicherung_modus /\ IsJanuary(month)
       THEN LET r == AccrualAll(portfolio, freistellungs_topf, params)
            IN  /\ portfolio' = r.q
                /\ freistellungs_topf' = r.topf
                /\ kum' = [kum EXCEPT !.total_tax_paid = @ + r.steuer]
                /\ loc' = [ handler |-> "steuern", steuer |-> r.steuer ]
       ELSE /\ UNCHANGED << portfolio, freistellungs_topf, kum >>
            /\ loc' = NoLoc
    /\ pc' = NextStage("steuern")
    /\ UNCHANGED << params, mc, monthly_return, monthly_inflation_rate, month, next_id,
                    monthly_investment, kumulierte_inflation_factor, death_triggered,
                    abschlusskosten_rest, monatliche_abschlusskosten_fix,
                    verrechnungs_monate_verbleibend, cashflows, real_cashflows,
                    cashflow_dates, monatliche_kosten_logs, rebalancing_log, final >>

\* --------------------------------------------------------- _handle_rebalancing
\* lines 462-486: the sale of (a part of) the oldest lot in a rebalancing
RebalancingSale(entry, remaining, topf, p) ==
    LET sell_value == Min(entry.value, remaining)
        cost_basis == MulDiv(entry.amount_invested, sell_value, entry.value)
        gain == sell_value - cost_basis
        steuerbarer_gewinn == NachTeilfreistellung(gain, p)
        vorab_used == Min(MulDiv(entry.vorabpauschalen_bereits_versteuert,
                                 sell_value, entry.value),
                          steuerbarer_gewinn)
        steuerbarer_gewinn_nach_vp == Max(0, steuerbarer_gewinn - vorab_used)
        steuerfreibetrag == Steuerfreibetrag(topf, steuerbarer_gewinn_nach_vp)
        zu_versteuern == Max(0, steuerbarer_gewinn_nach_vp - steuerfreibetrag)
        steuer == Rate(zu_versteuern, FullTaxRate(p))
        ruecknahmeabschlag_val == Rate(sell_value, p.ruecknahmeabschlag)
        vp_neu == Max(0, entry.vorabpauschalen_bereits_versteuert - vorab_used)
    IN  [ sell_value |-> sell_value, cost_basis |-> cost_basis, steuer |-> steuer,
          steuerbar |-> steuerbarer_gewinn_nach_vp,
          ruecknahmeabschlag_val |-> ruecknahmeabschlag_val,
          netto |-> sell_value - steuer - ruecknahmeabschlag_val,
          topf |-> topf - steuerfreibetrag,
          entry |-> [ entry EXCEPT
                        !.value = @ - sell_value,
                        !.amount_invested = @ - cost_basis,
                        !.vorabpauschalen_bereits_versteuert = vp_neu,
                        !.vorab_consumed =
                            @ + Max(0, entry.vorabpauschalen_bereits_versteuert - vp_neu) ] ]

\* lines 447-458: the handler up to its sale loop
HandleRebalancing ==
    /\ pc = "rebalancing"
    /\ LET depotwert == SumValues(portfolio)
           umzuschichten == Rate(depotwert, params.rebalancing_rate)
       IN  IF /\ ~params.versicherung_modus
              /\ IsDecember(month)
              /\ params.rebalancing_rate > 0
              /\ umzuschichten > 0
           THEN /\ loc' = [ handler |-> "rebalancing", remaining |-> umzuschichten,
                            temp_queue |-> <<>>, total_verkauf |-> 0,
                            total_steuer |-> 0, total_netto |-> 0,
                            total_ruecknahmeabschlag |-> 0,
                            depotwert_vorher |-> depotwert, dropped |-> 0,
                            verkauft |-> 0 ]
                          @@ NoSale
                /\ pc' = "rebal_loop"
           ELSE /\ loc' = NoLoc
                /\ pc' = NextStage("rebalancing")
    /\ UNCHANGED << params, mc, monthly_return, monthly_inflation_rate, month, portfolio,
                    next_id, freistellungs_topf, monthly_investment, kum,
                    kumulierte_inflation_factor, death_triggered,
                    abschlusskosten_rest, monatliche_abschlusskosten_fix,
                    verrechnungs_monate_verbleibend, cashflows, real_cashflows,
                    cashflow_dates, monatliche_kosten_logs, rebalancing_log, final >>

\* lines 459-489: one iteration of the sale loop
RebalancingIteration ==
    /\ pc = "rebal_loop"
    /\ loc.remaining > Eps /\ portfolio # <<>>
    /\ LET entry == Head(portfolio)
           s == RebalancingSale(entry, loc.remaining, freistellungs_topf, params)
       IN  /\ portfolio' = Tail(portfolio)
           /\ IF entry.value <= 0
              THEN /\ loc' = [ loc EXCEPT !.sold = FALSE, !.entry_vorher = entry,
                                          !.dropped = @ + entry.value ]
                   /\ UNCHANGED << freistellungs_topf, kum >>
              ELSE /\ freistellungs_topf' = s.topf
                   /\ kum' = [kum EXCEPT
                                !.total_tax_paid = @ + s.steuer,
                                !.ruecknahmeabschlag_summe = @ + s.ruecknahmeabschlag_val]
                   /\ loc' = [ loc EXCEPT
                                 !.remaining = @ - s.sell_value,
                                 !.temp_queue = IF s.entry.value > Eps
                                                THEN Append(@, s.entry) ELSE @,
                                 !.total_verkauf = @ + s.sell_value,
                                 !.total_steuer = @ + s.steuer,
                                 !.total_netto = @ + s.netto,
                                 !.total_ruecknahmeabschlag = @ + s.ruecknahmeabschlag_val,
                                 !.verkauft = @ + (entry.value - s.entry.value),
                                 !.sold = TRUE, !.entry_vorher = entry,
                                 !.entry = s.entry, !.sell_value = s.sell_value,
                                 !.cost_basis = s.cost_basis,
                                 !.steuerbar = s.steuerbar, !.steuer = s.steuer ]
    /\ pc' = "rebal_loop"
    /\ UNCHANGED << params, mc, monthly_return, monthly_inflation_rate, month, next_id,
                    monthly_investment, kumulierte_inflation_factor, death_triggered,
                    abschlusskosten_rest, monatliche_abschlusskosten_fix,
                    verrechnungs_monate_verbleibend, cashflows, real_cashflows,
                    cashflow_dates, monatliche_kosten_logs, rebalancing_log, final >>

\* mutant of Reinvest: the reinvested lot is put at the front of the ledger
ReinvestAtFront(q, lot) == << lot >> \o q

\* line 492: the lot of the reinvested proceeds joins the ledger as its
\* youngest lot
Reinvest(q, lot) == Append(q, lot)

\* lines 490-497: the partly sold lot returns to the front, the net proceeds
\* are reinvested as one new lot, the event is logged
RebalancingEnde ==
    /\ pc = "rebal_loop"
    /\ ~(loc.remaining > Eps /\ portfolio # <<>>)
    /\ LET q == loc.temp_queue \o portfolio
       IN  IF loc.total_netto > Eps
           THEN /\ portfolio' = Reinvest(q, NewLot(next_id, month, loc.total_netto))
                /\ next_id' = next_id + 1
           ELSE /\ portfolio' = q
                /\ next_id' = next_id
    /\ rebalancing_log' =
           Append(rebalancing_log,
                  [ Datum |-> month, Bruttoverkauf |-> loc.total_verkauf,
                    Steuer |-> loc.total_steuer,
                    Netto_reinvestiert |-> loc.total_netto ])
    /\ loc' = [ loc EXCEPT !.handler = "rebalancing_ende" ]
    /\ pc' = NextStage("rebalancing")
    /\ UNCHANGED << params, mc, monthly_return, monthly_inflation_rate, month,
                    freistellungs_topf, monthly_investment, kum,
                    kumulierte_inflation_factor, death_triggered,
                    abschlusskosten_rest, monatliche_abschlusskosten_fix,
                    verrechnungs_monate_verbleibend, cashflows, real_cashflows,
                    cashflow_dates, monatliche_kosten_logs, final >>

\* --------------------------------------------------------- _handle_withdrawals
IsLeap(y) == y % 4 = 0 /\ (y % 100 # 0 \/ y % 400 = 0)

DaysInMonth(m) ==
    LET mi == m % MonthsPerYear
        y == 2025 + m \div MonthsPerYear
    IN  IF mi = 1 THEN (IF IsLeap(y) THEN 29 ELSE 28)
        ELSE IF mi \in {3, 5, 8, 10} THEN 30 ELSE 31

\* the number of leap years before year y
LeapsBefore(y) == (y - 1) \div 4 - (y - 1) \div 100 + (y - 1) \div 400

\* days from the first day of the year of month m to the first day of month m
RECURSIVE DaysInYearBefore(_)
DaysInYearBefore(m) ==
    IF m % MonthsPerYear = 0 THEN 0
    ELSE DaysInYearBefore(m - 1) + DaysInMonth(m - 1)

\* days from 2025-01-01 to the first day of month m
Days(m) ==
    LET y == m \div MonthsPerYear
    IN  365 * y + LeapsBefore(2025 + y) - LeapsBefore(2025) + DaysInYearBefore(m)

HalbeinkuenfteAlter == 62
HalbeinkuenfteLaufzeit == 12
FaktorHalbeinkuenfte == 50
FaktorVoll == 85

\* days / 365.25 >= years
MindestensJahre(days, years) == 4 * days >= years * 1461

\* lines 535-540: the taxed share of a gain, in percent
Ertragsanteil(p, current_date, entry_date) ==
    IF /\ MindestensJahre(Days(current_date), HalbeinkuenfteAlter - p.eintrittsalter)
       /\ MindestensJahre(Days(current_date) - Days(entry_date), HalbeinkuenfteLaufzeit)
    THEN FaktorHalbeinkuenfte ELSE FaktorVoll

\* steuer = gewinn * faktor * persoenlicher_steuersatz
VersicherungSteuer(gewinn, faktor, p) ==
    Rate(gewinn, MulDiv(p.persoenlicher_steuersatz, faktor, 100))

\* mutant of WithdrawalSale: the whole taxable gain of the sale is taken from
\* the lot's already-taxed accrual, not the sold fraction of the accrual
WithdrawalSaleGanzerGewinn(oldest_entry, remaining_to_withdraw, topf, p, current_date) ==
    LET sell_value == Min(oldest_entry.value, remaining_to_withdraw)
        gewinn_anteil == MulDiv(oldest_entry.value - oldest_entry.amount_invested,
                                sell_value, oldest_entry.value)
        investiert_anteil == MulDiv(oldest_entry.amount_invested, sell_value,
                                    oldest_entry.value)
        vorabpauschalen_anteil == NachTeilfreistellung(gewinn_anteil, p)
        steuerbarer_gewinn == NachTeilfreistellung(gewinn_anteil, p)
        steuerbarer_gewinn_nach_vp == Max(0, steuerbarer_gewinn - vorabpauschalen_anteil)
        steuerfreibetrag_used == Steuerfreibetrag(topf, steuerbarer_gewinn_nach_vp)
        zu_versteuern == Max(0, steuerbarer_gewinn_nach_vp - steuerfreibetrag_used)
        steuer == IF p.versicherung_modus
                  THEN VersicherungSteuer(gewinn_anteil,
                           Ertragsanteil(p, current_date, oldest_entry.date), p)
                  ELSE Rate(zu_versteuern, FullTaxRate(p))
        ruecknahmeabschlag_val == Rate(sell_value, p.ruecknahmeabschlag)
    IN  [ sell_value |-> sell_value, cost_basis |-> investiert_anteil,
          steuer |-> steuer,
          steuerbar |-> IF p.versicherung_modus THEN gewinn_anteil
                        ELSE steuerbarer_gewinn_nach_vp,
          netto |-> sell_value - steuer - ruecknahmeabschlag_val,
          topf |-> IF p.versicherung_modus THEN topf ELSE topf - steuerfreibetrag_used,
          entry |-> [ oldest_entry EXCEPT
                        !.value = @ - sell_value,
                        !.amount_invested = @ - investiert_anteil,
                        !.vorabpauschalen_bereits_versteuert =
                            IF p.versicherung_modus THEN @
                            ELSE @ - vorabpauschalen_anteil,
                        !.vorab_consumed =
                            IF p.versicherung_modus THEN @
                            ELSE @ + Max(0, vorabpauschalen_anteil) ] ]

\* lines 529-557: the sale of (a part of) the oldest lot in a withdrawal
WithdrawalSale(oldest_entry, remaining_to_withdraw, topf, p, current_date) ==
    LET sell_value == Min(oldest_entry.value, remaining_to_withdraw)
        gewinn_anteil == MulDiv(oldest_entry.value - oldest_entry.amount_invested,
                                sell_value, oldest_entry.value)
        investiert_anteil == MulDiv(oldest_entry.amount_invested, sell_value,
                                    oldest_entry.value)
        vorabpauschalen_anteil ==
            MulDiv(oldest_entry.vorabpauschalen_bereits_versteuert, sell_value,
                   oldest_entry.value)
        steuerbarer_gewinn == NachTeilfreistellung(gewinn_anteil, p)
        steuerbarer_gewinn_nach_vp == Max(0, steuerbarer_gewinn - vorabpauschalen_anteil)
        steuerfreibetrag_used == Steuerfreibetrag(topf, steuerbarer_gewinn_nach_vp)
        zu_versteuern == Max(0, steuerbarer_gewinn_nach_vp - steuerfreibetrag_used)
        steuer == IF p.versicherung_modus
                  THEN VersicherungSteuer(gewinn_anteil,
                           Ertragsanteil(p, current_date, oldest_entry.date), p)
                  ELSE Rate(zu_versteuern, FullTaxRate(p))
        ruecknahmeabschlag_val == Rate(sell_value, p.ruecknahmeabschlag)
    IN  [ sell_value |-> sell_value, cost_basis |-> investiert_anteil,
          steuer |-> steuer,
          steuerbar |-> IF p.versicherung_modus THEN gewinn_anteil
                        ELSE steuerbarer_gewinn_nach_vp,
          netto |-> sell_value - steuer - ruecknahmeabschlag_val,
          topf |-> IF p.versicherung_modus THEN topf ELSE topf - steuerfreibetrag_used,
          entry |-> [ oldest_entry EXCEPT
                        !.value = @ - sell_value,
                        !.amount_invested = @ - investiert_anteil,
                        !.vorabpauschalen_bereits_versteuert =
                            IF p.versicherung_modus THEN @
                            ELSE @ - vorabpauschalen_anteil,
                        !.vorab_consumed =
                            IF p.versicherung_modus THEN @
                            ELSE @ + Max(0, vorabpauschalen_anteil) ] ]

\* lines 505-512: the withdrawal of the year
EntnahmebetragJahr(p, withdrawal_year) ==
    IF DOMAIN p.entnahme_plan # {}
    THEN LET years == { y \in DOMAIN p.entnahme_plan : withdrawal_year >= y }
         IN  IF years = {} THEN 0
             ELSE p.entnahme_plan[CHOOSE y \in years : \A z \in years : z <= y]
    ELSE p.annual_withdrawal

\* lines 500-525: the handler up to its sale loop
HandleWithdrawals ==
    /\ pc = "entnahme"
    /\ LET depotwert == SumValues(portfolio)
           withdrawal_year == CurrentYear(month) - params.beitragszahldauer + 1
           entnahmebetrag_jahr == EntnahmebetragJahr(params, withdrawal_year)
           entnahmebetrag ==
               IF params.entnahme_modus = "jaehrlich" /\ IsJanuary(month)
               THEN entnahmebetrag_jahr
               ELSE IF params.entnahme_modus = "monatlich"
                    THEN RoundDiv(entnahmebetrag_jahr, MonthsPerYear)
                    ELSE 0
           entnahmebetrag_effektiv == Min(entnahmebetrag, depotwert)
       IN  IF /\ month >= params.beitragszahldauer * MonthsPerYear
              /\ entnahmebetrag_jahr > 0
              /\ entnahmebetrag_effektiv > 0
           THEN /\ loc' = [ handler |-> "entnahme",
                            entnahmebetrag_effektiv |-> entnahmebetrag_effektiv,
                            remaining |-> entnahmebetrag_effektiv,
                            temp_queue |-> <<>>, netto_entnahme_summe |-> 0, sales |-> 0,
                            total_withdrawal_tax_this_year |-> 0,
                            depotwert_vorher |-> depotwert, dropped |-> 0 ]
                          @@ NoSale
                /\ pc' = "entnahme_loop"
           ELSE /\ loc' = NoLoc
                /\ pc' = NextStage("entnahme")
    /\ UNCHANGED << params, mc, monthly_return, monthly_inflation_rate, month, portfolio,
                    next_id, freistellungs_topf, monthly_investment, kum,
                    kumulierte_inflation_factor, death_triggered,
                    abschlusskosten_rest, monatliche_abschlusskosten_fix,
                    verrechnungs_monate_verbleibend, cashflows, real_cashflows,
                    cashflow_dates, monatliche_kosten_logs, rebalancing_log, final >>

\* lines 526-560: one iteration of the sale loop
WithdrawalIteration ==
    /\ pc = "entnahme_loop"
    /\ loc.remaining > Eps /\ portfolio # <<>>
    /\ LET oldest_entry == Head(portfolio)
           s == WithdrawalSale(oldest_entry, loc.remaining, freistellungs_topf,
                               params, month)
       IN  /\ portfolio' = Tail(portfolio)
           /\ IF oldest_entry.value <= 0
              THEN /\ loc' = [ loc EXCEPT !.sold = FALSE, !.entry_vorher = oldest_entry,
                                          !.dropped = @ + oldest_entry.value ]
                   /\ UNCHANGED freistellungs_topf
              ELSE /\ freistellungs_topf' = s.topf
                   /\ loc' = [ loc EXCEPT
                                 !.remaining = @ - s.sell_value,
                                 !.temp_queue = IF s.entry.value > Eps
                                                THEN Append(@, s.entry) ELSE @,
                                 !.netto_entnahme_summe = @ + s.netto,
                                 !.total_withdrawal_tax_this_year = @ + s.steuer,
                                 !.sales = @ + 1,
                                 !.sold = TRUE, !.entry_vorher = oldest_entry,
                                 !.entry = s.entry, !.sell_value = s.sell_value,
                                 !.cost_basis = s.cost_basis,
                                 !.steuerbar = s.steuerbar, !.steuer = s.steuer ]
    /\ pc' = "entnahme_loop"
    /\ UNCHANGED << params, mc, monthly_return, monthly_inflation_rate, month, next_id,
                    monthly_investment, kum, kumulierte_inflation_factor,
                    death_triggered, abschlusskosten_rest,
                    monatliche_abschlusskosten_fix, verrechnungs_monate_verbleibend,
                    cashflows, real_cashflows, cashflow_dates,
                    monatliche_kosten_logs, rebalancing_log, final >>

\* mutant of WithdrawalEnde: the counter of the withdrawals takes the amount
\* sold instead of the net proceeds
WithdrawalEndeBrutto ==
    /\ pc = "entnahme_loop"
    /\ ~(loc.remaining > Eps /\ portfolio # <<>>)
    /\ portfolio' = loc.temp_queue \o portfolio
    /\ kum' = [kum EXCEPT
                 !.total_tax_paid = @ + loc.total_withdrawal_tax_this_year,
                 !.total_withdrawal_tax_paid = @ + loc.total_withdrawal_tax_this_year,
                 !.ruecknahmeabschlag_summe =
                     @ + Rate(loc.entnahmebetrag_effektiv, params.ruecknahmeabschlag),
                 !.kumulierte_entnahmen = @ + loc.entnahmebetrag_effektiv]
    /\ cashflows' = Append(cashflows, loc.netto_entnahme_summe)
    /\ real_cashflows' = Append(real_cashflows, Real(loc.netto_entnahme_summe))
    /\ cashflow_dates' = Append(cashflow_dates, month)
    /\ loc' = [ loc EXCEPT !.handler = "entnahme_ende" ]
    /\ pc' = NextStage("entnahme")
    /\ UNCHANGED << params, mc, monthly_return, monthly_inflation_rate, month, next_id,
                    freistellungs_topf, monthly_investment,
                    kumulierte_inflation_factor, death_triggered,
                    abschlusskosten_rest, monatliche_abschlusskosten_fix,
                    verrechnungs_monate_verbleibend, monatliche_kosten_logs,
                    rebalancing_log, final >>

\* lines 561-573: the partly sold lot returns to the front, the counters and
\* the cash-flow lists are updated
WithdrawalEnde ==
    /\ pc = "entnahme_loop"
    /\ ~(loc.remaining > Eps /\ portfolio # <<>>)
    /\ portfolio' = loc.temp_queue \o portfolio
    /\ kum' = [kum EXCEPT
                 !.total_tax_paid = @ + loc.total_withdrawal_tax_this_year,
                 !.total_withdrawal_tax_paid = @ + loc.total_withdrawal_tax_this_year,
                 !.ruecknahmeabschlag_summe =
                     @ + Rate(loc.entnahmebetrag_effektiv, params.ruecknahmeabschlag),
                 !.kumulierte_entnahmen = @ + loc.netto_entnahme_summe]
    /\ cashflows' = Append(cashflows, loc.netto_entnahme_summe)
    /\ real_cashflows' = Append(real_cashflows, Real(loc.netto_entnahme_summe))
    /\ cashflow_dates' = Append(cashflow_dates, month)
    /\ loc' = [ loc EXCEPT !.handler = "entnahme_ende" ]
    /\ pc' = NextStage("entnahme")
    /\ UNCHANGED << params, mc, monthly_return, monthly_inflation_rate, month, next_id,
                    freistellungs_topf, monthly_investment,
                    kumulierte_inflation_factor, death_triggered,
                    abschlusskosten_rest, monatliche_abschlusskosten_fix,
                    verrechnungs_monate_verbleibend, monatliche_kosten_logs,
                    rebalancing_log, final >>

\* ------------------------------------------------------- the period's log
\* mutant of LogRecord: the deflated value is logged as 'Depotwert'
LogRecordDeflated(datum, depotwert) ==
    [ Datum |-> datum, Depotwert |-> Real(depotwert), Depotwert_real |-> Real(depotwert),
      kum |-> kum ]

\* a row of monatliche_kosten_logs (the cumulative counters are kept as kum)
LogRecord(datum, depotwert) ==
    [ Datum |-> datum, Depotwert |-> depotwert, Depotwert_real |-> Real(depotwert),
      kum |-> kum ]

\* lines 220-249
LogMonat ==
    /\ pc = "log"
    /\ monatliche_kosten_logs' =
           Append(monatliche_kosten_logs, LogRecord(month, SumValues(portfolio)))
    /\ pc' = NextStage("log")
    /\ loc' = NoLoc
    /\ UNCHANGED << params, mc, monthly_return, monthly_inflation_rate, month, portfolio,
                    next_id, freistellungs_topf, monthly_investment, kum,
                    kumulierte_inflation_factor, death_triggered,
                    abschlusskosten_rest, monatliche_abschlusskosten_fix,
                    verrechnungs_monate_verbleibend, cashflows, real_cashflows,
                    cashflow_dates, rebalancing_log, final >>

\* mutant of Snapshot: the loop of run_simulation runs one period more
SnapshotOnePeriodMore ==
    /\ pc = "snapshot"
    /\ portfolio' =
           IF IsDecember(month)
           THEN [ i \in 1..Len(portfolio) |->
                    [ portfolio[i] EXCEPT !.start_of_prev_year_value = portfolio[i].value ] ]
           ELSE portfolio
    /\ month' = month + 1
    /\ pc' = IF month + 1 <= params.laufzeit * MonthsPerYear THEN "monat_start"
             ELSE "finale"
    /\ UNCHANGED << params, mc, monthly_return, monthly_inflation_rate, next_id,
                    freistellungs_topf, monthly_investment, kum,
                    kumulierte_inflation_factor, death_triggered,
                    abschlusskosten_rest, monatliche_abschlusskosten_fix,
                    verrechnungs_monate_verbleibend, cashflows, real_cashflows,
                    cashflow_dates, monatliche_kosten_logs, rebalancing_log, loc,
                    final >>

\* lines 251-253 and the loop of run_simulation (lines 156-158)
Snapshot ==
    /\ pc = "snapshot"
    /\ portfolio' =
           IF IsDecember(month)
           THEN [ i \in 1..Len(portfolio) |->
                    [ portfolio[i] EXCEPT !.start_of_prev_year_value = portfolio[i].value ] ]
           ELSE portfolio
    /\ month' = month + 1
    /\ pc' = IF month + 1 < params.laufzeit * MonthsPerYear THEN "monat_start"
             ELSE "finale"
    /\ UNCHANGED << params, mc, monthly_return, monthly_inflation_rate, next_id,
                    freistellungs_topf, monthly_investment, kum,
                    kumulierte_inflation_factor, death_triggered,
                    abschlusskosten_rest, monatliche_abschlusskosten_fix,
                    verrechnungs_monate_verbleibend, cashflows, real_cashflows,
                    cashflow_dates, monatliche_kosten_logs, rebalancing_log, loc,
                    final >>

\* ---------------------------------------------------- _finalisiere_simulation
\* lines 364-381: whether the final sale is taxed, and the tax
FinalTaxed(restwert, gewinn, triggered) == restwert > Eps /\ gewinn > 0 /\ ~triggered

FinalSteuer(q, p, topf) ==
    LET restwert == SumValues(q)
        gewinn == Max(0, restwert - SumInvested(q))
        steuerbar == Max(0, NachTeilfreistellung(gewinn, p) - SumVorab(q))
        steuerfreibetrag_used == Steuerfreibetrag(topf, steuerbar)
        zu_versteuern == Max(0, steuerbar - steuerfreibetrag_used)
        faktor == IF p.eintrittsalter + p.laufzeit >= HalbeinkuenfteAlter
                     /\ p.laufzeit >= HalbeinkuenfteLaufzeit
                  THEN FaktorHalbeinkuenfte ELSE FaktorVoll
    IN  IF p.versicherung_modus
        THEN [ steuer |-> VersicherungSteuer(gewinn, faktor, p), topf |-> topf ]
        ELSE [ steuer |-> Rate(zu_versteuern, FullTaxRate(p)),
               topf |-> topf - steuerfreibetrag_used ]

FinalisiereSimulation ==
    /\ pc = "finale"
    /\ LET restwert == SumValues(portfolio)
           investiert == SumInvested(portfolio)
           gewinn == Max(0, restwert - investiert)
           taxed == FinalTaxed(restwert, gewinn, death_triggered)
           t == FinalSteuer(portfolio, params, freistellungs_topf)
           steuer == IF taxed THEN t.steuer ELSE 0
           ruecknahmeabschlag_val ==
               IF ~params.versicherung_modus
               THEN Rate(restwert, params.ruecknahmeabschlag) ELSE 0
           restwert_net == restwert - steuer - ruecknahmeabschlag_val
       IN  /\ freistellungs_topf' = IF taxed THEN t.topf ELSE freistellungs_topf
           /\ kum' = [kum EXCEPT
                        !.total_tax_paid = @ + steuer,
                        !.total_withdrawal_tax_paid = @ + steuer,
                        !.ruecknahmeabschlag_summe = @ + ruecknahmeabschlag_val,
                        !.kumulierte_entnahmen = @ + restwert_net]
           /\ cashflows' = Append(cashflows, restwert_net)
           /\ real_cashflows' = Append(real_cashflows, Real(restwert_net))
           /\ cashflow_dates' = Append(cashflow_dates, params.laufzeit * MonthsPerYear)
           /\ monatliche_kosten_logs' =
                  Append(monatliche_kosten_logs,
                         [ LogRecord(params.laufzeit * MonthsPerYear, restwert)
                             EXCEPT !.kum = kum' ])
           /\ final' = [ done |-> TRUE, restwert |-> restwert, investiert |-> investiert,
                         gewinn |-> gewinn, taxed |-> taxed, steuer |-> steuer,
                         ruecknahmeabschlag_val |-> ruecknahmeabschlag_val,
                         restwert_net |-> restwert_net ]
    /\ pc' = "done"
    /\ loc' = NoLoc
    /\ UNCHANGED << params, mc, monthly_return, monthly_inflation_rate, month, portfolio,
                    next_id, monthly_investment, kumulierte_inflation_factor,
                    death_triggered, abschlusskosten_rest,
                    monatliche_abschlusskosten_fix, verrechnungs_monate_verbleibend,
                    rebalancing_log >>

\* ------------------------------------------------------------ run_simulation
Next ==
    \/ InitialisiereSimulation
    \/ MonatStart
    \/ Dynamik
    \/ Sonderzahlung
    \/ Sparrate
    \/ MonatlicheKostenAbziehen
    \/ Wertentwicklung
    \/ Inflation
    \/ HandleTaxes
    \/ HandleRebalancing
    \/ RebalancingIteration
    \/ RebalancingEnde
    \/ HandleWithdrawals
    \/ WithdrawalIteration
    \/ WithdrawalEnde
    \/ LogMonat
    \/ Snapshot
    \/ FinalisiereSimulation

Spec == Init /\ [][Next]_vars

\* run_simulation is a sequential program: the statement it stands at is
\* executed.  This is weak fairness of Next,
\*     []<>(~ENABLED <<Next>>_vars) \/ []<><<Next>>_vars,
\* with ENABLED <<Next>>_vars written out as pc # "done": every handler is
\* total, so a step is possible exactly until run_simulation has returned.
SpecLive == Spec /\ ([]<>(pc = "done") \/ []<><<Next>>_vars)

\* ==================================================== 250720_final.py (script)
\* The script keeps its state in module-level names.  Its ledger, allowance,
\* period counter and contribution are held in portfolio, freistellungs_topf,
\* month and monthly_investment, its list log in monatliche_kosten_logs, its
\* totals total_tax_paid and total_costs_paid in kum, and its PARAMETER block
\* in params and monthly_return.  The other variables do not exist in the
\* script and stay as they start.

\* simulation_years of the PARAMETER block ranges over 1..MaxSimulationYears
MaxSimulationYears == 1

\* line 22: full_tax_rate = 0.25 * (1 + 0.055 + 0.09), as a fraction of
\* SkriptTaxDen
SkriptFullTaxRate == 28625
SkriptTaxDen == 100000

\* line 53: the period advances the date by 30 days
SkriptDaysPerPeriod == 30

\* lines 8-28: the PARAMETER block
SkriptParams(years, entnahme, fsa) ==
    [ initial_investment |-> 10000, monthly_investment |-> 400,
      monthly_dynamik_rate |-> 0, freistellungsauftrag_jahr |-> fsa,
      sonderzahlung_jahr |-> 0, sonderzahlung_betrag |-> 0,
      dynamik_turnus_monate |-> 12, simulation_years |-> years,
      entnahme_jahre |-> entnahme, rebalancing_rate |-> 2000, basiszins |-> 255,
      teilfreistellung |-> 7000, ausgabeaufschlag |-> 20, ruecknahmeabschlag |-> 20,
      ter |-> 45, verwalter_gebuehr |-> 119, stueckkosten |-> 45,
      annual_withdrawal |-> 20000 ]

\* line 15 gives 49 basis points a month; a falling market is the other input
SkriptMonthlyReturns == {49, -100}
SkriptEntnahmeJahre == {0, 1}
SkriptFreistellungsauftraege == {0, 1000}
SkriptParamSet ==
    { SkriptParams(y, e, f) : y \in 1..MaxSimulationYears, e \in SkriptEntnahmeJahre,
                              f \in SkriptFreistellungsauftraege }

\* line 18
TotalMonths(p) == p.simulation_years * MonthsPerYear

\* lines 53-55: the calendar month (counted from January 2025) of the date that
\* lies 30 * m days after 2025-01-01
RECURSIVE MonthOfDay(_, _)
MonthOfDay(d, m) == IF d < Days(m + 1) THEN m ELSE MonthOfDay(d, m + 1)
SkriptMonth(m) == MonthOfDay(SkriptDaysPerPeriod * m, 0)
SkriptIsJanuary(m) == SkriptMonth(m) % MonthsPerYear = 0
SkriptIsDecember(m) == SkriptMonth(m) % MonthsPerYear = MonthsPerYear - 1

SkriptKumZero == [ total_tax_paid |-> 0, total_costs_paid |-> 0 ]

\* the names the script does not have
SkriptUnused ==
    << monthly_inflation_rate, kumulierte_inflation_factor, death_triggered,
       abschlusskosten_rest, monatliche_abschlusskosten_fix,
       verrechnungs_monate_verbleibend, cashflows, real_cashflows, cashflow_dates,
       rebalancing_log, final >>

SkriptInit ==
    /\ params \in SkriptParamSet
    /\ monthly_return \in SkriptMonthlyReturns
    /\ monthly_inflation_rate = 0
    /\ month = 0
    /\ pc = "skript_init"
    /\ portfolio = <<>>
    /\ next_id = 0
    /\ freistellungs_topf = 0
    /\ monthly_investment = params.monthly_investment
    /\ kum = SkriptKumZero
    /\ kumulierte_inflation_factor = RateDen
    /\ death_triggered = FALSE
    /\ abschlusskosten_rest = 0
    /\ monatliche_abschlusskosten_fix = 0
    /\ verrechnungs_monate_verbleibend = 0
    /\ cashflows = <<>>
    /\ real_cashflows = <<>>
    /\ cashflow_dates = <<>>
    /\ monatliche_kosten_logs = <<>>
    /\ rebalancing_log = <<>>
    /\ loc = NoLoc
    /\ final = NoFinal
    /\ mc = NoMc

\* the order of the steps in the body of the loop (lines 52-194)
SkriptStages ==
    << "skript_dynamik", "skript_sonderzahlung", "skript_einzahlung", "skript_reset",
       "skript_vorabpauschale", "skript_kosten", "skript_wertentwicklung",
       "skript_rebalancing", "skript_entnahme", "skript_logging", "skript_snapshot" >>
SkriptNext(s) ==
    SkriptStages[(CHOOSE i \in 1..Len(SkriptStages) : SkriptStages[i] = s) + 1]

\* lines 31-49
SkriptInitialisierung ==
    /\ pc = "skript_init"
    /\ freistellungs_topf' = params.freistellungsauftrag_jahr
    /\ LET aufschlag == Rate(params.initial_investment, params.ausgabeaufschlag)
           nettobetrag == params.initial_investment - aufschlag
       IN  portfolio' = Append(portfolio, NewLot(next_id, 0, nettobetrag))
    /\ next_id' = next_id + 1
    /\ pc' = IF TotalMonths(params) + params.entnahme_jahre * MonthsPerYear > 0
             THEN SkriptStages[1] ELSE "skript_done"
    /\ UNCHANGED << params, mc, monthly_return, month, monthly_investment, kum,
                    monatliche_kosten_logs, loc >>
    /\ UNCHANGED SkriptUnused

\* lines 58-59
SkriptDynamik ==
    /\ pc = "skript_dynamik"
    /\ monthly_investment' =
           IF month > 0 /\ month % params.dynamik_turnus_monate = 0
           THEN monthly_investment + Rate(monthly_investment, params.monthly_dynamik_rate)
           ELSE monthly_investment
    /\ pc' = SkriptNext("skript_dynamik")
    /\ loc' = NoLoc
    /\ UNCHANGED << params, mc, monthly_return, month, portfolio, next_id,
                    freistellungs_topf, kum, monatliche_kosten_logs >>
    /\ UNCHANGED SkriptUnused

\* lines 62-72
SkriptSonderzahlung ==
    /\ pc = "skript_sonderzahlung"
    /\ IF month = params.sonderzahlung_jahr * MonthsPerYear
       THEN LET aufschlag == Rate(params.sonderzahlung_betrag, params.ausgabeaufschlag)
                netto == params.sonderzahlung_betrag - aufschlag
            IN  /\ portfolio' = Append(portfolio, NewLot(next_id, month, netto))
                /\ next_id' = next_id + 1
       ELSE UNCHANGED << portfolio, next_id >>
    /\ pc' = SkriptNext("skript_sonderzahlung")
    /\ UNCHANGED << params, mc, monthly_return, month, freistellungs_topf,
                    monthly_investment, kum, monatliche_kosten_logs, loc >>
    /\ UNCHANGED SkriptUnused

\* lines 75-85
SkriptEinzahlung ==
    /\ pc = "skript_einzahlung"
    /\ IF month < TotalMonths(params)
       THEN LET aufschlag == Rate(monthly_investment, params.ausgabeaufschlag)
                netto == monthly_investment - aufschlag
            IN  /\ portfolio' = Append(portfolio, NewLot(next_id, month, netto))
                /\ next_id' = next_id + 1
       ELSE UNCHANGED << portfolio, next_id >>
    /\ pc' = SkriptNext("skript_einzahlung")
    /\ UNCHANGED << params, mc, monthly_return, month, freistellungs_topf,
                    monthly_investment, kum, monatliche_kosten_logs, loc >>
    /\ UNCHANGED SkriptUnused

\* lines 88-89: the reset of the allowance in a period whose date is in January
SkriptReset ==
    /\ pc = "skript_reset"
    /\ freistellungs_topf' = IF SkriptIsJanuary(month)
                             THEN params.freistellungsauftrag_jahr
                             ELSE freistellungs_topf
    /\ pc' = SkriptNext("skript_reset")
    /\ UNCHANGED << params, mc, monthly_return, month, portfolio, next_id,
                    monthly_investment, kum, monatliche_kosten_logs, loc >>
    /\ UNCHANGED SkriptUnused

\* lines 91-102: the accrual tax of one lot
SkriptAccrualLot(entry, topf, p) ==
    LET start_value == entry.start_of_prev_year_value
        fiktiver_ertrag == Rate(start_value, p.basiszins)
        real_ertrag == entry.value - entry.amount_invested
        steuerbarer_ertrag == Min(fiktiver_ertrag, real_ertrag)
        steuerfreibetrag == Min(topf, Rate(steuerbarer_ertrag, p.teilfreistellung))
        zu_versteuern ==
            Max(0, Rate(steuerbarer_ertrag, p.teilfreistellung) - steuerfreibetrag)
        steuer == Max(0, MulDiv(zu_versteuern, SkriptFullTaxRate, SkriptTaxDen))
    IN  IF steuer > 0
        THEN [ entry |-> [ entry EXCEPT
                             !.value = @ - steuer,
                             !.vorabpauschalen_bereits_versteuert = @ + steuerbarer_ertrag,
                             !.accrual_taxed = @ + zu_versteuern,
                             !.accrual_tax_charged = @ + steuer ],
               topf |-> topf - steuerfreibetrag, steuer |-> steuer ]
        ELSE [ entry |-> entry, topf |-> topf, steuer |-> 0 ]

\* line 90: the lots in ledger order, the allowance passing from lot to lot
RECURSIVE SkriptAccrualAll(_, _, _)
SkriptAccrualAll(q, topf, p) ==
    IF q = <<>> THEN [ q |-> <<>>, topf |-> topf, steuer |-> 0 ]
    ELSE LET a == SkriptAccrualLot(Head(q), topf, p)
             r == SkriptAccrualAll(Tail(q), a.topf, p)
         IN  [ q |-> << a.entry >> \o r.q, topf |-> r.topf,
               steuer |-> a.steuer + r.steuer ]

\* lines 88, 90-102
SkriptVorabpauschale ==
    /\ pc = "skript_vorabpauschale"
    /\ IF SkriptIsJanuary(month)
       THEN LET r == SkriptAccrualAll(portfolio, freistellungs_topf, params)
            IN  /\ portfolio' = r.q
                /\ freistellungs_topf' = r.topf
                /\ kum' = [kum EXCEPT !.total_tax_paid = @ + r.steuer]
       ELSE UNCHANGED << portfolio, freistellungs_topf, kum >>
    /\ pc' = SkriptNext("skript_vorabpauschale")
    /\ UNCHANGED << params, mc, monthly_return, month, next_id, monthly_investment,
                    monatliche_kosten_logs, loc >>
    /\ UNCHANGED SkriptUnused

\* lines 105-111: the yearly costs, taken in every period whose date is in
\* January
SkriptKosten ==
    /\ pc = "skript_kosten"
    /\ IF SkriptIsJanuary(month)
       THEN LET jahreswert == SumValues(portfolio)
                kosten == Rate(jahreswert, params.ter + params.verwalter_gebuehr)
                          + params.stueckkosten
            IN  /\ portfolio' =
                       [ i \in 1..Len(portfolio) |->
                           [ portfolio[i] EXCEPT
                               !.value = IF jahreswert > 0
                                         THEN @ - MulDiv(kosten, @, jahreswert)
                                         ELSE @ ] ]
                /\ kum' = [kum EXCEPT !.total_costs_paid = @ + kosten]
       ELSE UNCHANGED << portfolio, kum >>
    /\ pc' = SkriptNext("skript_kosten")
    /\ UNCHANGED << params, mc, monthly_return, month, next_id, freistellungs_topf,
                    monthly_investment, monatliche_kosten_logs, loc >>
    /\ UNCHANGED SkriptUnused

\* lines 114-115
SkriptWertentwicklung ==
    /\ pc = "skript_wertentwicklung"
    /\ portfolio' = [ i \in 1..Len(portfolio) |->
                        [ portfolio[i] EXCEPT !.value = @ + Rate(@, monthly_return) ] ]
    /\ pc' = SkriptNext("skript_wertentwicklung")
    /\ UNCHANGED << params, mc, monthly_return, month, next_id, freistellungs_topf,
                    monthly_investment, kum, monatliche_kosten_logs, loc >>
    /\ UNCHANGED SkriptUnused

\* lines 126-140 (rebalancing) and 163-177 (withdrawal): the sale of the front
\* lot, the same statements in both loops
SkriptSale(entry, remaining, topf, p) ==
    LET sell_value == Min(entry.value, remaining)
        cost_basis == MulDiv(entry.amount_invested, sell_value, entry.value)
        anteilig_vorab == MulDiv(entry.vorabpauschalen_bereits_versteuert,
                                 sell_value, entry.value)
        gain == sell_value - cost_basis - anteilig_vorab
        steuerbarer_gewinn == Rate(gain, p.teilfreistellung)
        steuerfreibetrag == Min(topf, steuerbarer_gewinn)
        steuer == Max(0, MulDiv(steuerbarer_gewinn - steuerfreibetrag,
                                SkriptFullTaxRate, SkriptTaxDen))
    IN  [ sell_value |-> sell_value, cost_basis |-> cost_basis,
          steuerbar |-> steuerbarer_gewinn, steuer |-> steuer,
          topf |-> topf - steuerfreibetrag,
          entry |-> [ entry EXCEPT
                        !.value = @ - sell_value,
                        !.amount_invested = @ - cost_basis,
                        !.vorabpauschalen_bereits_versteuert = @ - anteilig_vorab,
                        !.vorab_consumed = @ + anteilig_vorab ] ]

\* lines 121-125, 141-142 and 158-162, 178-179: one iteration of a sale loop on
\* the front lot, which stays at the front unless nothing is left of it
SkriptIteration(loop) ==
    /\ pc = loop
    /\ loc.remaining > 0 /\ portfolio # <<>>
    /\ LET entry == Head(portfolio)
           s == SkriptSale(entry, loc.remaining, freistellungs_topf, params)
       IN  IF entry.value <= 0
           THEN /\ portfolio' = Tail(portfolio)
                /\ loc' = [ loc EXCEPT !.sold = FALSE, !.entry_vorher = entry ]
                /\ UNCHANGED << freistellungs_topf, kum >>
           ELSE /\ portfolio' = IF s.entry.value <= 0 THEN Tail(portfolio)
                                ELSE << s.entry >> \o Tail(portfolio)
                /\ freistellungs_topf' = s.topf
                /\ kum' = [kum EXCEPT !.total_tax_paid = @ + s.steuer]
                /\ loc' = [ loc EXCEPT
                              !.remaining = @ - s.sell_value,
                              !.sold = TRUE, !.entry_vorher = entry,
                              !.entry = s.entry, !.sell_value = s.sell_value,
                              !.cost_basis = s.cost_basis,
                              !.steuerbar = s.steuerbar, !.steuer = s.steuer ]
    /\ pc' = loop
    /\ UNCHANGED << params, mc, monthly_return, month, next_id, monthly_investment,
                    monatliche_kosten_logs >>
    /\ UNCHANGED SkriptUnused

\* lines 118-120
SkriptRebalancing ==
    /\ pc = "skript_rebalancing"
    /\ IF SkriptIsJanuary(month) /\ 0 < month /\ month < TotalMonths(params)
       THEN LET rebalancing_value == Rate(SumValues(portfolio), params.rebalancing_rate)
            IN  /\ loc' = [ handler |-> "skript_rebalancing",
                            rebalancing_value |-> rebalancing_value,
                            remaining |-> rebalancing_value ] @@ NoSale
                /\ pc' = "skript_rebal_loop"
       ELSE /\ loc' = NoLoc
            /\ pc' = SkriptNext("skript_rebalancing")
    /\ UNCHANGED << params, mc, monthly_return, month, portfolio, next_id,
                    freistellungs_topf, monthly_investment, kum,
                    monatliche_kosten_logs >>
    /\ UNCHANGED SkriptUnused

\* lines 121-142
SkriptRebalancingIteration ==
    pc = "skript_rebal_loop" /\ SkriptIteration("skript_rebal_loop")

\* lines 143-152: the reinvestment after the loop
SkriptRebalancingEnde ==
    /\ pc = "skript_rebal_loop"
    /\ ~(loc.remaining > 0 /\ portfolio # <<>>)
    /\ LET reinvest_netto ==
               loc.rebalancing_value
               - Rate(loc.rebalancing_value,
                      params.ruecknahmeabschlag + params.ausgabeaufschlag)
       IN  portfolio' = Append(portfolio, NewLot(next_id, month, reinvest_netto))
    /\ next_id' = next_id + 1
    /\ loc' = [ loc EXCEPT !.handler = "skript_rebalancing_ende" ]
    /\ pc' = SkriptNext("skript_rebalancing")
    /\ UNCHANGED << params, mc, monthly_return, month, freistellungs_topf,
                    monthly_investment, kum, monatliche_kosten_logs >>
    /\ UNCHANGED SkriptUnused

\* lines 155-157
SkriptEntnahme ==
    /\ pc = "skript_entnahme"
    /\ IF month >= TotalMonths(params)
       THEN LET entnahme_monatlich == RoundDiv(params.annual_withdrawal, MonthsPerYear)
            IN  /\ loc' = [ handler |-> "skript_entnahme",
                            remaining |-> entnahme_monatlich ] @@ NoSale
                /\ pc' = "skript_entnahme_loop"
       ELSE /\ loc' = NoLoc
            /\ pc' = SkriptNext("skript_entnahme")
    /\ UNCHANGED << params, mc, monthly_return, month, portfolio, next_id,
                    freistellungs_topf, monthly_investment, kum,
                    monatliche_kosten_logs >>
    /\ UNCHANGED SkriptUnused

\* lines 158-179
SkriptEntnahmeIteration ==
    pc = "skript_entnahme_loop" /\ SkriptIteration("skript_entnahme_loop")

\* the end of the withdrawal loop
SkriptEntnahmeEnde ==
    /\ pc = "skript_entnahme_loop"
    /\ ~(loc.remaining > 0 /\ portfolio # <<>>)
    /\ loc' = [ loc EXCEPT !.handler = "skript_entnahme_ende" ]
    /\ pc' = SkriptNext("skript_entnahme")
    /\ UNCHANGED << params, mc, monthly_return, month, portfolio, next_id,
                    freistellungs_topf, monthly_investment, kum,
                    monatliche_kosten_logs >>
    /\ UNCHANGED SkriptUnused

\* lines 182-189
SkriptLogging ==
    /\ pc = "skript_logging"
    /\ monatliche_kosten_logs' =
           Append(monatliche_kosten_logs,
                  [ Datum |-> month, Depotwert |-> SumValues(portfolio),
                    Steuern_kumuliert |-> kum.total_tax_paid,
                    Kosten_kumuliert |-> kum.total_costs_paid,
                    Freibetrag_verbleibend |-> freistellungs_topf ])
    /\ pc' = SkriptNext("skript_logging")
    /\ loc' = NoLoc
    /\ UNCHANGED << params, mc, monthly_return, month, portfolio, next_id,
                    freistellungs_topf, monthly_investment, kum >>
    /\ UNCHANGED SkriptUnused

\* lines 192-194 and the loop header (line 52)
SkriptSnapshot ==
    /\ pc = "skript_snapshot"
    /\ portfolio' =
           IF SkriptIsDecember(month)
           THEN [ i \in 1..Len(portfolio) |->
                    [ portfolio[i] EXCEPT !.start_of_prev_year_value = portfolio[i].value ] ]
           ELSE portfolio
    /\ month' = month + 1
    /\ pc' = IF month + 1 < TotalMonths(params) + params.entnahme_jahre * MonthsPerYear
             THEN SkriptStages[1] ELSE "skript_done"
    /\ UNCHANGED << params, mc, monthly_return, next_id, freistellungs_topf,
                    monthly_investment, kum, monatliche_kosten_logs, loc >>
    /\ UNCHANGED SkriptUnused

SkriptNextStep ==
    \/ SkriptInitialisierung
    \/ SkriptDynamik
    \/ SkriptSonderzahlung
    \/ SkriptEinzahlung
    \/ SkriptReset
    \/ SkriptVorabpauschale
    \/ SkriptKosten
    \/ SkriptWertentwicklung
    \/ SkriptRebalancing
    \/ SkriptRebalancingIteration
    \/ SkriptRebalancingEnde
    \/ SkriptEntnahme
    \/ SkriptEntnahmeIteration
    \/ SkriptEntnahmeEnde
    \/ SkriptLogging
    \/ SkriptSnapshot

SpecFinal == SkriptInit /\ [][SkriptNextStep]_vars

\* ===================================================================== claims
\* the lots of the ledger while a sale loop runs: the lots set aside in
\* temp_queue and the lots not yet popped
InSaleLoop == pc \in {"rebal_loop", "entnahme_loop"}
Ledger == IF InSaleLoop THEN loc.temp_queue \o portfolio ELSE portfolio
Lots(q) == { q[i] : i \in 1..Len(q) }

\* C1: whenever an iteration of a rebalancing or withdrawal sale loop has
\* reduced a lot, no other lot with an earlier acquisition date is left in the
\* ledger with positive value.
C1_FifoOrder ==
    (InSaleLoop /\ loc.sold) =>
        \A y \in Lots(Ledger) :
            (y.id # loc.entry_vorher.id /\ y.value > 0) => y.date >= loc.entry_vorher.date

\* C1 witness: a sale has taken a lot while a younger lot with positive value
\* waits behind it, in a ledger that already holds a reinvested lot.
C1_Witness ==
    /\ InSaleLoop /\ loc.sold
    /\ rebalancing_log # <<>>
    /\ \E y \in Lots(portfolio) : y.value > 0 /\ y.date > loc.entry_vorher.date


\* C2: no tax amount is negative (accrual tax, the tax of a sale, the tax of
\* the final liquidation), and a sale whose proceeds do not exceed the cost
\* basis of the sold share is charged no tax.
C2_TaxNonNegative ==
    /\ (InSaleLoop /\ loc.sold) =>
           /\ loc.steuer >= 0
           /\ (loc.sell_value <= loc.cost_basis => loc.steuer = 0)
    /\ (loc.handler = "steuern" => loc.steuer >= 0)
    /\ (final.done => final.steuer >= 0)

\* C3: the remaining tax-exempt allowance is never negative.
C3_TopfNonNegative == freistellungs_topf >= 0

\* C3 witness: a positive allowance has been used up and tax has been charged
\* on the gain beyond it.
C3_Witness ==
    /\ params.freistellungsauftrag_jahr > 0
    /\ freistellungs_topf = 0
    /\ kum.total_tax_paid > 0

\* C5: when the sales of a lot have liquidated it, the already-taxed accrual
\* that these sales took out of the lot and set against its gains does not
\* exceed the amount on which accrual tax was charged for that lot (and so
\* not the accrual tax itself, which is a fraction of that amount).
C5_NoDoubleTaxation ==
    (InSaleLoop /\ loc.sold /\ loc.entry.value <= Eps) =>
        loc.entry.vorab_consumed <= loc.entry.accrual_taxed

\* C6: the sum of the lot values of the ledger is never negative.
C6_LedgerNonNegative == SumValues(Ledger) >= 0

\* C7: after a rebalancing event the logged gross sale is the sum of the sold
\* lot values, the logged reinvested amount is the gross sale minus the tax and
\* the exit load of the event, and the ledger total is the total before the
\* event minus that tax and exit load.
C7_RebalancingConservation ==
    loc.handler = "rebalancing_ende" =>
        LET e == rebalancing_log[Len(rebalancing_log)]
        IN  /\ e.Bruttoverkauf = loc.verkauft
            /\ e.Netto_reinvestiert =
                   e.Bruttoverkauf - e.Steuer - loc.total_ruecknahmeabschlag
            /\ SumValues(portfolio) =
                   loc.depotwert_vorher - e.Steuer - loc.total_ruecknahmeabschlag

\* C8: when the ledger total before the fee step exceeds the fee of the period,
\* the fee step lowers the ledger total by the fee and every lot by the part
\* fee * value / total of it (each lot within half a unit of rounding).
C8_ProportionalDeduction ==
    (pc = "wertentwicklung" /\ loc.handler = "kosten"
        /\ loc.depotwert_brutto > loc.gesamtkosten_monatlich) =>
        /\ Len(portfolio) = Len(loc.vorher)
        /\ 2 * Abs(SumValues(loc.vorher) - SumValues(portfolio)
                   - loc.gesamtkosten_monatlich) <= Len(portfolio)
        /\ \A i \in 1..Len(portfolio) :
               2 * Abs((loc.vorher[i].value - portfolio[i].value) * loc.depotwert_brutto
                       - loc.gesamtkosten_monatlich * loc.vorher[i].value)
                   <= loc.depotwert_brutto

\* C8 witness: the fee step has taken a positive fee, smaller than the ledger
\* total, from a ledger of several lots.
C8_Witness ==
    /\ pc = "wertentwicklung" /\ loc.handler = "kosten"
    /\ loc.gesamtkosten_monatlich > 0
    /\ loc.depotwert_brutto > loc.gesamtkosten_monatlich
    /\ Len(portfolio) >= 3
    /\ SumValues(portfolio) < SumValues(loc.vorher)

\* the order of the steps of a period as the specification states it
ClaimedOrder ==
    << "dynamik", "sonderzahlung", "sparrate", "kosten", "wertentwicklung",
       "inflation", "steuern", "rebalancing", "entnahme", "log", "snapshot" >>

\* the step a position of the simulator belongs to
Phase(s) == IF s = "rebal_loop" THEN "rebalancing"
            ELSE IF s = "entnahme_loop" THEN "entnahme" ELSE s

\* C9: a period runs escalation, extra payments, recurring contribution, fees,
\* growth, inflation, accrual tax, rebalancing, withdrawal, log record and
\* snapshot in this order; exactly the log step appends one record, so that
\* at the snapshot of period m the log holds m + 1 records.
C9_StepOrder ==
    /\ [][ LET a == Phase(pc)
               b == Phase(pc')
           IN  /\ a = "monat_start" => b = ClaimedOrder[1]
               /\ \A i \in 1..(Len(ClaimedOrder) - 1) :
                      (a = ClaimedOrder[i] /\ b # a) => b = ClaimedOrder[i + 1]
               /\ a = "snapshot" => (b \in {"monat_start", "finale"} /\ month' = month + 1)
               /\ a # "snapshot" => month' = month
               /\ a = "log" =>
                      /\ Len(monatliche_kosten_logs') = Len(monatliche_kosten_logs) + 1
                      /\ monatliche_kosten_logs'[Len(monatliche_kosten_logs')].Datum = month
               /\ a \in Lots(ClaimedOrder) \ {"log"} =>
                      monatliche_kosten_logs' = monatliche_kosten_logs ]_vars
    /\ [](pc = "snapshot" => Len(monatliche_kosten_logs) = month + 1)

\* C9 witness: a period of the second year has run all its steps, after a
\* rebalancing and a withdrawal have taken place.
C9_Witness ==
    /\ pc = "snapshot" /\ month >= MonthsPerYear
    /\ Len(monatliche_kosten_logs) = month + 1
    /\ rebalancing_log # <<>>
    /\ kum.kumulierte_entnahmen > 0

\* C10: the final liquidation charges tax whenever the remaining lots show a
\* gain, in either mode and with or without a mortality year.
C10_FinalSaleTaxed == (final.done /\ final.gewinn > 0) => final.taxed


\* the steps that draw on the allowance: the accrual step and the iterations of
\* the sale loops, of the script and of the simulator
AllowanceSteps ==
    { "skript_vorabpauschale", "skript_rebal_loop", "skript_entnahme_loop",
      "steuern", "rebal_loop", "entnahme_loop" }
SaleLoops == { "skript_rebal_loop", "skript_entnahme_loop", "rebal_loop", "entnahme_loop" }

\* C4: the accrual step and every iteration of a sale loop leave the allowance
\* no larger than they found it, and an iteration that sells a lot with a
\* taxable amount of zero or less leaves it as it is.
C4_BucketNeverReplenished ==
    [][ (pc \in AllowanceSteps) =>
          ( (freistellungs_topf' <= freistellungs_topf)
            /\ ( (pc' \in SaleLoops /\ loc'.sold /\ loc'.steuerbar <= 0) =>
                    (freistellungs_topf' = freistellungs_topf) ) ) ]_vars

\* ============================================ a policy in its later years
\* The half-income rule needs an age of 62 and a duration of 12 years.
\* SpecLangzeit starts SparplanSimulator where run_simulation stands at such a
\* time: at the head of the sale loop of _handle_withdrawals in a period of
\* the policy's 11th to 28th year, or at _finalisiere_simulation, with a
\* ledger of two lots bought at different times.
LangzeitEintrittsalter == {35, 50}
LangzeitLaufzeiten == {11, 14, 28}
\* contributions are paid for ten years, withdrawals start after them
LangzeitBeitragszahldauer == 10
\* the periods of the withdrawals looked at (months since 2025-01)
LangzeitMonate == {131, 143, 144, 156, 330}
\* date, value and amount_invested of the older and of the younger lot
LangzeitAlteLots == { <<0, 300, 200>>, <<0, 800, 400>>, <<6, 300, 200>> }
LangzeitJungeLots == { <<30, 1000, 700>>, <<119, 1000, 700>> }

LangzeitLot(id, l) ==
    [ NewLot(id, l[1], l[3]) EXCEPT !.value = l[2] ]

LangzeitParamSet ==
    { [ MakeParams(TRUE, "normal", 0, 0, 0, "monatlich") EXCEPT
          !.eintrittsalter = a, !.laufzeit = l,
          !.beitragszahldauer = LangzeitBeitragszahldauer ] :
        a \in LangzeitEintrittsalter, l \in LangzeitLaufzeiten }

LangzeitInit ==
    /\ params \in LangzeitParamSet
    /\ monthly_return \in MonthlyReturns
    /\ monthly_inflation_rate \in InflationRates
    /\ pc \in {"entnahme_loop", "finale"}
    /\ month \in IF pc = "finale" THEN {params.laufzeit * MonthsPerYear}
                 ELSE { m \in LangzeitMonate : m < params.laufzeit * MonthsPerYear }
    /\ \E alt \in LangzeitAlteLots, jung \in LangzeitJungeLots :
          portfolio = << LangzeitLot(0, alt), LangzeitLot(1, jung) >>
    /\ next_id = 2
    /\ freistellungs_topf = params.freistellungsauftrag_jahr
    /\ monthly_investment = params.monthly_investment
    /\ kum = KumZero
    /\ kumulierte_inflation_factor = RateDen
    /\ death_triggered = FALSE
    /\ abschlusskosten_rest = 0
    /\ monatliche_abschlusskosten_fix = 0
    /\ verrechnungs_monate_verbleibend = 0
    /\ cashflows = <<>>
    /\ real_cashflows = <<>>
    /\ cashflow_dates = <<>>
    /\ monatliche_kosten_logs = <<>>
    /\ rebalancing_log = <<>>
    /\ loc = IF pc = "finale" THEN NoLoc
             ELSE LET entnahmebetrag_effektiv ==
                          Min(RoundDiv(params.annual_withdrawal, MonthsPerYear),
                              SumValues(portfolio))
                  IN  [ handler |-> "entnahme",
                        entnahmebetrag_effektiv |-> entnahmebetrag_effektiv,
                        remaining |-> entnahmebetrag_effektiv,
                        temp_queue |-> <<>>, netto_entnahme_summe |-> 0, sales |-> 0,
                        total_withdrawal_tax_this_year |-> 0,
                        depotwert_vorher |-> SumValues(portfolio), dropped |-> 0 ]
                      @@ NoSale
    /\ final = NoFinal
    /\ mc = NoMc

LangzeitNext ==
    \/ WithdrawalIteration
    \/ WithdrawalEnde
    \/ FinalisiereSimulation

SpecLangzeit == LangzeitInit /\ [][LangzeitNext]_vars

\* the factor of the half-income rule when the duration is counted from the
\* start of the policy (2025-01-01)
FaktorSeitVertragsbeginn(p, current_date) ==
    IF /\ MindestensJahre(Days(current_date), HalbeinkuenfteAlter - p.eintrittsalter)
       /\ MindestensJahre(Days(current_date), HalbeinkuenfteLaufzeit)
    THEN FaktorHalbeinkuenfte ELSE FaktorVoll

RECURSIVE GCD(_, _)
GCD(a, b) == IF b = 0 THEN a ELSE GCD(b, a % b)

RECURSIVE Power(_, _)
Power(b, e) == IF e = 0 THEN 1 ELSE b * Power(b, e - 1)

\* x = freistellungsauftrag_jahr * (1 + anpassung_rate) ** years, up to the
\* rounding to whole euros of each year's indexation
IsIndexedAllowance(x, p, years) ==
    LET g == GCD(RateDen + p.freistellungs_pauschbetrag_anpassung_rate, RateDen)
        n == (RateDen + p.freistellungs_pauschbetrag_anpassung_rate) \div g
        d == RateDen \div g
    IN  Abs(x * Power(d, years) - p.freistellungsauftrag_jahr * Power(n, years))
            <= years * Power(d, years)

\* the steps of a period that come before its first tax event
BeforeTaxEvents == {"dynamik", "sonderzahlung", "sparrate", "kosten",
                    "wertentwicklung", "inflation", "steuern"}

\* C12: at the start of every January period, before any tax event of the
\* period, the bucket is freistellungsauftrag_jahr * (1 + adjustment rate) **
\* (years since 2025), whatever was left of it in the year before; the bucket
\* is raised in no other step of any other month.
C12_AllowanceResetYearly ==
    /\ [](( month % 12 = 0 /\ pc \in BeforeTaxEvents )
            => IsIndexedAllowance(freistellungs_topf, params, month \div 12))
    /\ [][ (freistellungs_topf' > freistellungs_topf)
             => (pc = "monat_start" /\ month % 12 = 0) ]_vars

\* the bucket of a second January is refilled after the first year used it up
\* partly or wholly
C12_Witness ==
    /\ pc = "dynamik" /\ month = 12
    /\ loc.topf_vorher < params.freistellungsauftrag_jahr
    /\ freistellungs_topf > params.freistellungsauftrag_jahr


\* ------------------------------------------------------------------ C13
\* the log is only ever extended at its end
LogAppendOnly ==
    /\ Len(monatliche_kosten_logs') >= Len(monatliche_kosten_logs)
    /\ SubSeq(monatliche_kosten_logs', 1, Len(monatliche_kosten_logs))
         = monatliche_kosten_logs

RECURSIVE Compound(_, _)
Compound(r, n) ==
    IF n = 0 THEN RateDen
    ELSE LET vorher == Compound(r, n - 1)
         IN  MulDiv(vorher, RateDen + r, RateDen)

\* the monthly returns that a conversion of an annual return can give
MonthlyCandidates == -200..200

\* the annual returns of the runs: those of one percent up or down a month
AnnualReturns19 == { Compound(r, MonthsPerYear) - RateDen : r \in MonthlyReturns }

\* line 147, line 894: (1 + annual_return) ** (1 / 12) - 1
MonthlyFromAnnual(annual_return) ==
    CHOOSE r \in MonthlyCandidates :
        Compound(r, MonthsPerYear) = RateDen + annual_return

\* laufzeit of the scenarios, in years: a year of contributions and a year of
\* withdrawals
Laufzeit19 == 2

\* SparplanParameter.  fremd: the fields that the mode does not use hold
\* non-zero values.
MakeParams19(vers, fremd, annual_return) ==
    [ label |-> IF vers THEN "Versicherung" ELSE "Depot",
      versicherung_modus |-> vers,
      eintrittsalter |-> 35,
      initial_investment |-> 10000,
      monthly_investment |-> 400,
      laufzeit |-> Laufzeit19,
      beitragszahldauer |-> 1,
      monthly_dynamik_rate |-> 500,
      dynamik_turnus_monate |-> 6,
      sonderzahlung_jahr |-> 1,
      sonderzahlung_betrag |-> 1000,
      regel_sonderzahlung_betrag |-> 0,
      regel_sonderzahlung_turnus_jahre |-> 0,
      annual_withdrawal |-> 0,
      entnahme_plan |-> (1 :> 2400),
      entnahme_modus |-> "monatlich",
      annual_return |-> annual_return,
      ausgabeaufschlag |-> IF vers /\ ~fremd THEN 0 ELSE 20,
      ruecknahmeabschlag |-> IF vers /\ ~fremd THEN 0 ELSE 20,
      ter |-> 45,
      serviceentgelt |-> 119,
      stueckkosten |-> IF vers /\ ~fremd THEN 0 ELSE 45,
      abschlusskosten_einmalig_prozent |-> IF ~vers /\ ~fremd THEN 0 ELSE 250,
      abschlusskosten_monatlich_prozent |-> IF ~vers /\ ~fremd THEN 0 ELSE 252,
      verrechnungsdauer_monate |-> 6,
      verwaltungskosten_monatlich_prozent |-> IF ~vers /\ ~fremd THEN 0 ELSE 900,
      guthabenkosten |-> IF ~vers /\ ~fremd THEN 0 ELSE 18,
      abgeltungssteuer_rate |-> 2500,
      soli_zuschlag_on_abgeltungssteuer |-> 550,
      kirchensteuer_on_abgeltungssteuer |-> 900,
      persoenlicher_steuersatz |-> 3000,
      freistellungsauftrag_jahr |-> 20,
      teilfreistellung |-> IF vers THEN 0 ELSE 3000,
      basiszins |-> IF vers THEN 0 ELSE 255,
      rebalancing_rate |-> IF vers THEN 0 ELSE 2000,
      bewertungsdauer |-> IF vers THEN 35 ELSE 0,
      inflation_rate |-> 200,
      inflation_volatility |-> 100,
      freistellungs_pauschbetrag_anpassung_rate |-> 200 ]

ParamSet19 ==
    { MakeParams19(vers, fremd, a) :
        vers \in BOOLEAN, fremd \in BOOLEAN, a \in AnnualReturns19 }

\* the fields of the dataclass: what dataclasses.replace copies
Fields19 == DOMAIN MakeParams19(TRUE, TRUE, 0)

S19Unused ==
    << monthly_return, death_triggered, monatliche_abschlusskosten_fix,
       verrechnungs_monate_verbleibend, final >>

\* mutant of S19Constructed: the simulator of a run takes over the cumulative
\* counters and the allowance bucket of the simulator before it
S19ConstructedVorgaenger(p) ==
    /\ portfolio' = <<>>
    /\ next_id' = 0
    /\ rebalancing_log' = <<>>
    /\ monatliche_kosten_logs' = <<>>
    /\ cashflows' = <<>>
    /\ cashflow_dates' = <<>>
    /\ real_cashflows' = <<>>
    /\ kum' = kum
    /\ freistellungs_topf' = freistellungs_topf
    /\ monthly_investment' = p.monthly_investment
    /\ abschlusskosten_rest' = 0
    /\ kumulierte_inflation_factor' = RateDen
    /\ monthly_inflation_rate' \in InflationRates

\* lines 75-129: the state of a simulator after __init__
S19Constructed(p) ==
    /\ portfolio' = <<>>
    /\ next_id' = 0
    /\ rebalancing_log' = <<>>
    /\ monatliche_kosten_logs' = <<>>
    /\ cashflows' = <<>>
    /\ cashflow_dates' = <<>>
    /\ real_cashflows' = <<>>
    /\ kum' = KumZero
    /\ freistellungs_topf' = p.freistellungsauftrag_jahr
    /\ monthly_investment' = p.monthly_investment
    /\ abschlusskosten_rest' = 0
    /\ kumulierte_inflation_factor' = RateDen
    /\ monthly_inflation_rate' \in InflationRates

\* line 1138: simulator = SparplanSimulator(params)
S19Init ==
    /\ params \in ParamSet19
    /\ mc = NoMc
    /\ monthly_return = 0
    /\ monthly_inflation_rate \in InflationRates
    /\ month = 0
    /\ pc = "s19_init"
    /\ portfolio = <<>>
    /\ next_id = 0
    /\ freistellungs_topf = params.freistellungsauftrag_jahr
    /\ monthly_investment = params.monthly_investment
    /\ kum = KumZero
    /\ kumulierte_inflation_factor = RateDen
    /\ death_triggered = FALSE
    /\ abschlusskosten_rest = 0
    /\ monatliche_abschlusskosten_fix = 0
    /\ verrechnungs_monate_verbleibend = 0
    /\ cashflows = <<>>
    /\ real_cashflows = <<>>
    /\ cashflow_dates = <<>>
    /\ monatliche_kosten_logs = <<>>
    /\ rebalancing_log = <<>>
    /\ loc = NoLoc
    /\ final = NoFinal

\* lines 147-167: the attributes that _initialisiere_simulation sets on the
\* params object it was given
S19ParamsInitialised(p) ==
    [ monthly_return |-> MonthlyFromAnnual(p.annual_return),
      full_tax_rate |-> FullTaxRate(p) ]
    @@ IF p.versicherung_modus
       THEN [ p EXCEPT !.ausgabeaufschlag = 0, !.ruecknahmeabschlag = 0,
                       !.stueckkosten = 0 ]
       ELSE [ p EXCEPT !.abschlusskosten_einmalig_prozent = 0,
                       !.abschlusskosten_monatlich_prozent = 0,
                       !.verwaltungskosten_monatlich_prozent = 0,
                       !.guthabenkosten = 0 ]

\* lines 142-186
S19InitialisiereSimulation ==
    /\ pc = "s19_init"
    /\ params' = S19ParamsInitialised(params)
    /\ abschlusskosten_rest' =
           IF params.versicherung_modus
           THEN Rate(params.initial_investment, params.abschlusskosten_einmalig_prozent)
                + Rate(params.monthly_investment * params.beitragszahldauer
                         * MonthsPerYear,
                       params.abschlusskosten_monatlich_prozent)
           ELSE abschlusskosten_rest
    /\ LET aufschlag == Rate(params'.initial_investment, params'.ausgabeaufschlag)
           nettobetrag == params'.initial_investment - aufschlag
       IN  /\ kum' = [kum EXCEPT !.ausgabeaufschlag_summe = @ + aufschlag]
           /\ cashflows' = Append(cashflows, -params'.initial_investment)
           /\ real_cashflows' = Append(real_cashflows, -params'.initial_investment)
           /\ cashflow_dates' = Append(cashflow_dates, 0)
           /\ IF nettobetrag > 0
              THEN /\ portfolio' = Append(portfolio, NewLot(next_id, 0, nettobetrag))
                   /\ next_id' = next_id + 1
              ELSE UNCHANGED << portfolio, next_id >>
    /\ month' = 0
    /\ loc' = [ handler |-> "s19_init" ]
    /\ pc' = IF params.laufzeit * MonthsPerYear > 0 THEN "s19_monat_start"
             ELSE "s19_finale"
    /\ UNCHANGED << mc, monthly_inflation_rate, freistellungs_topf,
                    monthly_investment, kumulierte_inflation_factor,
                    monatliche_kosten_logs, rebalancing_log >>
    /\ UNCHANGED S19Unused

\* lines 192-199: the January reset of the allowance
S19MonatStart ==
    /\ pc = "s19_monat_start"
    /\ freistellungs_topf' = IF IsJanuary(month)
                             THEN Freibetrag(params, CurrentYear(month))
                             ELSE freistellungs_topf
    /\ loc' = [ handler |-> "s19_monat_start" ]
    /\ pc' = "s19_investment"
    /\ UNCHANGED << params, mc, monthly_inflation_rate, month, portfolio, next_id,
                    monthly_investment, kum, kumulierte_inflation_factor,
                    abschlusskosten_rest, cashflows, real_cashflows,
                    cashflow_dates, monatliche_kosten_logs, rebalancing_log >>
    /\ UNCHANGED S19Unused

\* lines 259-303: _handle_monthly_investment
S19HandleMonthlyInvestment ==
    /\ pc = "s19_investment"
    /\ LET rate == IF month > 0 /\ month % params.dynamik_turnus_monate = 0
                   THEN MulDiv(monthly_investment,
                               RateDen + params.monthly_dynamik_rate, RateDen)
                   ELSE monthly_investment
           is_einmalig == month = params.sonderzahlung_jahr * MonthsPerYear
           is_regelmaessig ==
               /\ params.regel_sonderzahlung_turnus_jahre > 0
               /\ month > 0
               /\ month % (params.regel_sonderzahlung_turnus_jahre * MonthsPerYear) = 0
           betrag == IF is_einmalig THEN params.sonderzahlung_betrag
                     ELSE params.regel_sonderzahlung_betrag
           sonder == (is_einmalig \/ is_regelmaessig) /\ betrag > 0
           sonder_aufschlag ==
               IF sonder /\ ~params.versicherung_modus
               THEN Rate(betrag, params.ausgabeaufschlag) ELSE 0
           sonder_stueck ==
               IF sonder /\ ~params.versicherung_modus THEN params.stueckkosten ELSE 0
           sparen == month < params.beitragszahldauer * MonthsPerYear
           aufschlag == IF sparen THEN Rate(rate, params.ausgabeaufschlag) ELSE 0
           lots1 == IF sonder
                    THEN << NewLot(next_id, month, betrag - sonder_aufschlag) >>
                    ELSE <<>>
           lots2 == IF sparen
                    THEN << NewLot(next_id + Len(lots1), month, rate - aufschlag) >>
                    ELSE <<>>
           flows == (IF sonder THEN << -betrag >> ELSE <<>>)
                    \o (IF sparen THEN << -rate >> ELSE <<>>)
       IN  /\ monthly_investment' = rate
           /\ portfolio' = portfolio \o lots1 \o lots2
           /\ next_id' = next_id + Len(lots1) + Len(lots2)
           /\ kum' = [kum EXCEPT
                        !.ausgabeaufschlag_summe = @ + sonder_aufschlag + aufschlag,
                        !.stueckkosten_summe = @ + sonder_stueck]
           /\ cashflows' = cashflows \o flows
           /\ real_cashflows' =
                  real_cashflows \o [ i \in 1..Len(flows) |-> Real(flows[i]) ]
           /\ cashflow_dates' = cashflow_dates \o [ i \in 1..Len(flows) |-> month ]
           /\ loc' = [ handler |-> "s19_investment", contributions |-> flows ]
    /\ pc' = "s19_costs"
    /\ UNCHANGED << params, mc, monthly_inflation_rate, month, freistellungs_topf,
                    kumulierte_inflation_factor, abschlusskosten_rest,
                    monatliche_kosten_logs, rebalancing_log >>
    /\ UNCHANGED S19Unused


\* lines 305-369: _handle_costs.  Every deduction is spread over the lots by
\* their current value over the value of the ledger at the start of the
\* handler; flows are the entries that the handler appends to the cash flows.
S19Costs(q, p, m, rate, rest) ==
    LET depotwert == SumValues(q)
        stueck == IF ~p.versicherung_modus /\ IsJanuary(m) /\ p.stueckkosten > 0
                  THEN p.stueckkosten ELSE 0
        q1 == IF stueck > 0 /\ depotwert > 0
              THEN ProportionalDeduction(q, stueck, depotwert) ELSE q
        fond_kosten ==
            IF depotwert > 0 THEN MulDiv(depotwert, p.ter, RateDen * MonthsPerYear)
            ELSE 0
        service_kosten ==
            IF depotwert > 0
            THEN MulDiv(depotwert, p.serviceentgelt, RateDen * MonthsPerYear) ELSE 0
        guthaben_kosten ==
            IF depotwert > 0 /\ p.versicherung_modus
            THEN MulDiv(depotwert, p.guthabenkosten, RateDen * MonthsPerYear) ELSE 0
        q2 == IF depotwert > 0
              THEN ProportionalDeduction(
                       q1, fond_kosten + service_kosten + guthaben_kosten, depotwert)
              ELSE q1
        hat_abschluss == /\ p.versicherung_modus
                         /\ m < p.verrechnungsdauer_monate
                         /\ rest > 0
        monatliche_abschlusskosten ==
            IF hat_abschluss THEN RoundDiv(rest, p.verrechnungsdauer_monate) ELSE 0
        q3 == IF hat_abschluss /\ depotwert > 0
              THEN ProportionalDeduction(q2, monatliche_abschlusskosten, depotwert)
              ELSE q2
        hat_verwaltung == /\ p.versicherung_modus
                          /\ m < p.beitragszahldauer * MonthsPerYear
        monatliche_verwaltungskosten ==
            IF hat_verwaltung THEN Rate(rate, p.verwaltungskosten_monatlich_prozent)
            ELSE 0
        q4 == IF hat_verwaltung /\ depotwert > 0
              THEN ProportionalDeduction(q3, monatliche_verwaltungskosten, depotwert)
              ELSE q3
    IN  [ q |-> q4,
          stueck |-> stueck, ter |-> fond_kosten, service |-> service_kosten,
          guthaben |-> guthaben_kosten, abschluss |-> monatliche_abschlusskosten,
          verwaltung |-> monatliche_verwaltungskosten,
          flows |-> (IF stueck > 0 THEN << -stueck >> ELSE <<>>)
                    \o (IF hat_abschluss THEN << -monatliche_abschlusskosten >>
                        ELSE <<>>)
                    \o (IF hat_verwaltung THEN << -monatliche_verwaltungskosten >>
                        ELSE <<>>) ]

S19HandleCosts ==
    /\ pc = "s19_costs"
    /\ LET k == S19Costs(portfolio, params, month, monthly_investment,
                         abschlusskosten_rest)
       IN  /\ portfolio' = k.q
           /\ kum' = [kum EXCEPT !.stueckkosten_summe = @ + k.stueck,
                                 !.ter_summe = @ + k.ter,
                                 !.serviceentgelt_summe = @ + k.service,
                                 !.guthabenkosten_summe = @ + k.guthaben,
                                 !.abschlusskosten_summe = @ + k.abschluss,
                                 !.verwaltungskosten_summe = @ + k.verwaltung]
           /\ cashflows' = cashflows \o k.flows
           /\ real_cashflows' =
                  real_cashflows \o [ i \in 1..Len(k.flows) |-> Real(k.flows[i]) ]
           /\ cashflow_dates' = cashflow_dates \o [ i \in 1..Len(k.flows) |-> month ]
           /\ loc' = [ handler |-> "s19_costs", kosten |-> k ]
    /\ pc' = "s19_growth"
    /\ UNCHANGED << params, mc, monthly_inflation_rate, month, next_id,
                    freistellungs_topf, monthly_investment,
                    kumulierte_inflation_factor, abschlusskosten_rest,
                    monatliche_kosten_logs, rebalancing_log >>
    /\ UNCHANGED S19Unused

\* self.dynamic_returns: None outside run_monte_carlo
DynamicReturns == IF mc.i < 0 THEN <<>> ELSE mc.monthly_returns

\* lines 204-215: the return of the month and the inflation of the month
S19Wertentwicklung ==
    /\ pc = "s19_growth"
    /\ LET monthly_return_val ==
               IF DynamicReturns # <<>> THEN DynamicReturns[month + 1]
               ELSE params.monthly_return
       IN  /\ portfolio' =
                  [ i \in 1..Len(portfolio) |->
                      [ portfolio[i] EXCEPT
                          !.value = MulDiv(@, RateDen + monthly_return_val, RateDen) ] ]
           /\ loc' = [ handler |-> "s19_growth", monthly_return_val |-> monthly_return_val ]
    /\ kumulierte_inflation_factor' =
           MulDiv(kumulierte_inflation_factor, RateDen + monthly_inflation_rate, RateDen)
    /\ pc' = "s19_taxes"
    /\ UNCHANGED << params, mc, monthly_inflation_rate, month, next_id,
                    freistellungs_topf, monthly_investment, kum,
                    abschlusskosten_rest, cashflows, real_cashflows,
                    cashflow_dates, monatliche_kosten_logs, rebalancing_log >>
    /\ UNCHANGED S19Unused

\* lines 378-405: the accrual tax of the lots in ledger order; steuern are
\* the taxes charged, one entry per lot that was charged
RECURSIVE S19Vorabpauschale(_, _, _)
S19Vorabpauschale(q, p, topf) ==
    IF q = <<>> THEN [ q |-> <<>>, topf |-> topf, steuern |-> <<>> ]
    ELSE LET entry == Head(q)
             start_value == entry.start_of_prev_year_value
             fiktiver_ertrag == Rate(start_value, p.basiszins)
             real_ertrag == entry.value - start_value
             steuerbarer_ertrag == Min(fiktiver_ertrag, real_ertrag)
             zu_versteuern_temp ==
                 MulDiv(steuerbarer_ertrag, RateDen - p.teilfreistellung, RateDen)
             steuerfreibetrag_used == Min(topf, Max(0, zu_versteuern_temp))
             zu_versteuern == Max(0, zu_versteuern_temp - steuerfreibetrag_used)
             steuer == Rate(zu_versteuern, p.full_tax_rate)
             rest == S19Vorabpauschale(Tail(q), p, topf - steuerfreibetrag_used)
             entry2 == IF steuer > 0
                       THEN [ entry EXCEPT
                                !.value = @ - steuer,
                                !.vorabpauschalen_bereits_versteuert = @ + zu_versteuern,
                                !.accrual_taxed = @ + zu_versteuern,
                                !.accrual_tax_charged = @ + steuer ]
                       ELSE entry
         IN  [ q |-> << entry2 >> \o rest.q,
               topf |-> rest.topf,
               steuern |-> (IF steuer > 0 THEN << steuer >> ELSE <<>>) \o rest.steuern ]

RECURSIVE SumSeq(_)
SumSeq(s) == IF s = <<>> THEN 0 ELSE Head(s) + SumSeq(Tail(s))

\* lines 371-405: _handle_taxes
S19HandleTaxes ==
    /\ pc = "s19_taxes"
    /\ LET t == IF ~params.versicherung_modus /\ IsJanuary(month)
                THEN S19Vorabpauschale(portfolio, params, freistellungs_topf)
                ELSE [ q |-> portfolio, topf |-> freistellungs_topf, steuern |-> <<>> ]
           flows == [ i \in 1..Len(t.steuern) |-> -t.steuern[i] ]
       IN  /\ portfolio' = t.q
           /\ freistellungs_topf' = t.topf
           /\ kum' = [kum EXCEPT !.total_tax_paid = @ + SumSeq(t.steuern)]
           /\ cashflows' = cashflows \o flows
           /\ real_cashflows' =
                  real_cashflows \o [ i \in 1..Len(flows) |-> Real(flows[i]) ]
           /\ cashflow_dates' = cashflow_dates \o [ i \in 1..Len(flows) |-> month ]
           /\ loc' = [ handler |-> "s19_taxes", steuern |-> t.steuern ]
    /\ pc' = "s19_rebalancing"
    /\ UNCHANGED << params, mc, monthly_inflation_rate, month, next_id,
                    monthly_investment, kumulierte_inflation_factor,
                    abschlusskosten_rest, monatliche_kosten_logs, rebalancing_log >>
    /\ UNCHANGED S19Unused


\* the outcome of a sale loop before its first iteration
S19NoSales(q, topf) ==
    [ temp_queue |-> <<>>, rest |-> q, topf |-> topf, steuer |-> 0, netto |-> 0,
      verkauf |-> 0, abschlag |-> 0 ]

\* lines 423-459: the sale loop of the rebalancing
RECURSIVE S19RebalancingLoop(_, _, _, _)
S19RebalancingLoop(q, remaining, topf, p) ==
    IF ~(remaining > Eps) \/ q = <<>> THEN S19NoSales(q, topf)
    ELSE LET entry == Head(q)
         IN  IF entry.value <= 0
             THEN S19RebalancingLoop(Tail(q), remaining, topf, p)
             ELSE
               LET sell_value == Min(entry.value, remaining)
                   cost_basis == MulDiv(entry.amount_invested, sell_value, entry.value)
                   gain == sell_value - cost_basis
                   steuerbar0 == MulDiv(gain, RateDen - p.teilfreistellung, RateDen)
                   vorab_used ==
                       Min(MulDiv(entry.vorabpauschalen_bereits_versteuert,
                                  sell_value, entry.value),
                           steuerbar0)
                   steuerbarer_gewinn == Max(0, steuerbar0 - vorab_used)
                   steuerfreibetrag == Min(topf, steuerbarer_gewinn)
                   steuer == Max(0, Rate(steuerbarer_gewinn - steuerfreibetrag,
                                         p.full_tax_rate))
                   ruecknahmeabschlag == Rate(sell_value, p.ruecknahmeabschlag)
                   entry2 == [ entry EXCEPT
                                 !.value = @ - sell_value,
                                 !.amount_invested = @ - cost_basis,
                                 !.vorabpauschalen_bereits_versteuert =
                                     Max(0, @ - vorab_used),
                                 !.vorab_consumed = @ + Max(0, vorab_used) ]
                   r == S19RebalancingLoop(Tail(q), remaining - sell_value,
                                           topf - steuerfreibetrag, p)
               IN  [ r EXCEPT
                       !.temp_queue = (IF entry2.value > Eps THEN << entry2 >>
                                       ELSE <<>>) \o @,
                       !.steuer = @ + steuer,
                       !.netto = @ + sell_value - steuer - ruecknahmeabschlag,
                       !.verkauf = @ + sell_value,
                       !.abschlag = @ + ruecknahmeabschlag ]

\* lines 407-468: _handle_rebalancing
S19HandleRebalancing ==
    /\ pc = "s19_rebalancing"
    /\ LET aktiv == /\ ~params.versicherung_modus
                    /\ IsDecember(month)
                    /\ params.rebalancing_rate > 0
           umzuschichten == Rate(SumValues(portfolio), params.rebalancing_rate)
           r == S19RebalancingLoop(portfolio, umzuschichten, freistellungs_topf, params)
       IN  IF aktiv /\ umzuschichten > 0
           THEN /\ portfolio' =
                       r.temp_queue \o r.rest
                       \o (IF r.netto > Eps THEN << NewLot(next_id, month, r.netto) >>
                           ELSE <<>>)
                /\ next_id' = IF r.netto > Eps THEN next_id + 1 ELSE next_id
                /\ freistellungs_topf' = r.topf
                /\ kum' = [kum EXCEPT !.total_tax_paid = @ + r.steuer,
                                      !.ruecknahmeabschlag_summe = @ + r.abschlag]
                /\ rebalancing_log' =
                       Append(rebalancing_log,
                              [ Datum |-> month, Bruttoverkauf |-> r.verkauf,
                                Steuer |-> r.steuer, Netto_reinvestiert |-> r.netto ])
                /\ loc' = [ handler |-> "s19_rebalancing", sales |-> r ]
           ELSE /\ UNCHANGED << portfolio, next_id, freistellungs_topf, kum,
                                rebalancing_log >>
                /\ loc' = [ handler |-> "s19_rebalancing" ]
    /\ pc' = "s19_withdrawals"
    /\ UNCHANGED << params, mc, monthly_inflation_rate, month, monthly_investment,
                    kumulierte_inflation_factor, abschlusskosten_rest, cashflows,
                    real_cashflows, cashflow_dates, monatliche_kosten_logs >>
    /\ UNCHANGED S19Unused

\* lines 525-533: the share of the gain that is taxed, in percent
S19Steuerfaktor(p, m, entry) ==
    LET lot_days == Days(m) - Days(entry.date)
    IN  IF /\ 4 * (Days(m)) >= 1461 * (62 - p.eintrittsalter)
           /\ 4 * lot_days >= 1461 * 12
        THEN 50 ELSE 85

\* lines 512-559: the sale loop of a withdrawal
RECURSIVE S19WithdrawalLoop(_, _, _, _, _)
S19WithdrawalLoop(q, remaining, topf, p, m) ==
    IF ~(remaining > Eps) \/ q = <<>> THEN S19NoSales(q, topf)
    ELSE LET oldest_entry == Head(q)
         IN  IF oldest_entry.value <= 0
             THEN S19WithdrawalLoop(Tail(q), remaining, topf, p, m)
             ELSE
               LET sell_value == Min(oldest_entry.value, remaining)
                   gewinn_anteil ==
                       MulDiv(oldest_entry.value - oldest_entry.amount_invested,
                              sell_value, oldest_entry.value)
                   investiert_anteil ==
                       MulDiv(oldest_entry.amount_invested, sell_value,
                              oldest_entry.value)
                   vorabpauschalen_anteil ==
                       MulDiv(oldest_entry.vorabpauschalen_bereits_versteuert,
                              sell_value, oldest_entry.value)
                   steuerbarer_gewinn ==
                       MulDiv(gewinn_anteil, RateDen - p.teilfreistellung, RateDen)
                   steuerbarer_gewinn_nach_vp ==
                       Max(0, steuerbarer_gewinn - vorabpauschalen_anteil)
                   steuerfreibetrag_used ==
                       IF p.versicherung_modus THEN 0
                       ELSE Min(topf, steuerbarer_gewinn_nach_vp)
                   steuer ==
                       IF p.versicherung_modus
                       THEN MulDiv(gewinn_anteil,
                                   S19Steuerfaktor(p, m, oldest_entry)
                                     * p.persoenlicher_steuersatz,
                                   100 * RateDen)
                       ELSE Max(0, Rate(steuerbarer_gewinn - steuerfreibetrag_used,
                                        p.full_tax_rate))
                   ruecknahmeabschlag == Rate(sell_value, p.ruecknahmeabschlag)
                   entry2 == [ oldest_entry EXCEPT
                                 !.value = @ - sell_value,
                                 !.amount_invested = @ - investiert_anteil,
                                 !.vorabpauschalen_bereits_versteuert =
                                     IF p.versicherung_modus THEN @
                                     ELSE @ - vorabpauschalen_anteil,
                                 !.vorab_consumed =
                                     IF p.versicherung_modus THEN @
                                     ELSE @ + Max(0, vorabpauschalen_anteil) ]
                   r == S19WithdrawalLoop(Tail(q), remaining - sell_value,
                                          topf - steuerfreibetrag_used, p, m)
               IN  [ r EXCEPT
                       !.temp_queue = (IF entry2.value > Eps THEN << entry2 >>
                                       ELSE <<>>) \o @,
                       !.steuer = @ + steuer,
                       !.netto = @ + sell_value - steuer - ruecknahmeabschlag,
                       !.verkauf = @ + sell_value,
                       !.abschlag = @ + ruecknahmeabschlag ]

\* lines 496-500: the withdrawal of the month
S19Entnahmebetrag(p, m, entnahmebetrag_jahr) ==
    IF p.entnahme_modus = "jaehrlich" /\ IsJanuary(m) THEN entnahmebetrag_jahr
    ELSE IF p.entnahme_modus = "monatlich"
         THEN RoundDiv(entnahmebetrag_jahr, MonthsPerYear)
         ELSE 0

\* lines 470-574: _handle_withdrawals
S19HandleWithdrawals ==
    /\ pc = "s19_withdrawals"
    /\ LET depotwert == SumValues(portfolio)
           withdrawal_year == CurrentYear(month) - params.beitragszahldauer + 1
           entnahmebetrag_jahr == EntnahmebetragJahr(params, withdrawal_year)
           entnahmebetrag == S19Entnahmebetrag(params, month, entnahmebetrag_jahr)
           aktiv == /\ ~(month < params.beitragszahldauer * MonthsPerYear)
                    /\ ~(entnahmebetrag_jahr <= 0)
                    /\ ~(entnahmebetrag <= 0 \/ depotwert < entnahmebetrag)
           r == S19WithdrawalLoop(portfolio, entnahmebetrag, freistellungs_topf,
                                  params, month)
       IN  IF aktiv
           THEN /\ portfolio' = r.temp_queue \o r.rest
                /\ freistellungs_topf' = r.topf
                /\ kum' = [kum EXCEPT
                             !.total_tax_paid = @ + r.steuer,
                             !.total_withdrawal_tax_paid = @ + r.steuer,
                             !.ruecknahmeabschlag_summe =
                                 @ + Rate(entnahmebetrag, params.ruecknahmeabschlag),
                             !.kumulierte_entnahmen = @ + r.netto]
                /\ cashflows' = Append(cashflows, r.netto)
                /\ real_cashflows' = Append(real_cashflows, Real(r.netto))
                /\ cashflow_dates' = Append(cashflow_dates, month)
                /\ loc' = [ handler |-> "s19_withdrawals", sales |-> r ]
           ELSE /\ UNCHANGED << portfolio, freistellungs_topf, kum, cashflows,
                                real_cashflows, cashflow_dates >>
                /\ loc' = [ handler |-> "s19_withdrawals" ]
    /\ pc' = "s19_log"
    /\ UNCHANGED << params, mc, monthly_inflation_rate, month, next_id,
                    monthly_investment, kumulierte_inflation_factor,
                    abschlusskosten_rest, monatliche_kosten_logs, rebalancing_log >>
    /\ UNCHANGED S19Unused

\* lines 221-257 and the loop of run_simulation (line 136): the log record of
\* the month and the December snapshot
S19LogMonat ==
    /\ pc = "s19_log"
    /\ monatliche_kosten_logs' =
           Append(monatliche_kosten_logs, LogRecord(month, SumValues(portfolio)))
    /\ portfolio' =
           IF IsDecember(month)
           THEN [ i \in 1..Len(portfolio) |->
                    [ portfolio[i] EXCEPT !.start_of_prev_year_value = portfolio[i].value ] ]
           ELSE portfolio
    /\ month' = month + 1
    /\ pc' = IF month + 1 < params.laufzeit * MonthsPerYear THEN "s19_monat_start"
             ELSE "s19_finale"
    /\ loc' = [ handler |-> "s19_log" ]
    /\ UNCHANGED << params, mc, monthly_inflation_rate, next_id, freistellungs_topf,
                    monthly_investment, kum, kumulierte_inflation_factor,
                    abschlusskosten_rest, cashflows, real_cashflows,
                    cashflow_dates, rebalancing_log >>
    /\ UNCHANGED S19Unused

\* lines 576-646: _finalisiere_simulation
S19FinalisiereSimulation ==
    /\ pc = "s19_finale"
    /\ monatliche_kosten_logs' =
           Append(monatliche_kosten_logs,
                  LogRecord(params.laufzeit * MonthsPerYear, SumValues(portfolio)))
    /\ LET restwert == SumValues(portfolio)
           gewinn == Max(0, restwert - SumInvested(portfolio))
           steuerbar ==
               Max(0, MulDiv(gewinn, RateDen - params.teilfreistellung, RateDen)
                      - SumVorab(portfolio))
           steuer ==
               IF params.versicherung_modus
               THEN MulDiv(gewinn,
                           (IF params.eintrittsalter + params.laufzeit >= 62
                               /\ params.laufzeit >= 12 THEN 50 ELSE 85)
                             * params.persoenlicher_steuersatz,
                           100 * RateDen)
               ELSE Rate(steuerbar, params.full_tax_rate)
           ruecknahmeabschlag == Rate(restwert, params.ruecknahmeabschlag)
           restwert_net == restwert - steuer - ruecknahmeabschlag
       IN  IF restwert > Eps
           THEN /\ kum' = [kum EXCEPT
                             !.total_withdrawal_tax_paid =
                                 IF params.versicherung_modus THEN @ ELSE @ + steuer,
                             !.total_tax_paid = @ + steuer,
                             !.ruecknahmeabschlag_summe = @ + ruecknahmeabschlag,
                             !.kumulierte_entnahmen = @ + restwert_net]
                /\ cashflows' = Append(cashflows, restwert_net)
                /\ real_cashflows' = Append(real_cashflows, Real(restwert_net))
                /\ cashflow_dates' =
                       Append(cashflow_dates, params.laufzeit * MonthsPerYear)
                /\ loc' = [ handler |-> "s19_finale", restwert_net |-> restwert_net ]
           ELSE /\ UNCHANGED << kum, cashflows, real_cashflows, cashflow_dates >>
                /\ loc' = [ handler |-> "s19_finale" ]
    /\ pc' = "s19_done"
    /\ UNCHANGED << params, mc, monthly_inflation_rate, month, portfolio, next_id,
                    freistellungs_topf, monthly_investment,
                    kumulierte_inflation_factor, abschlusskosten_rest,
                    rebalancing_log >>
    /\ UNCHANGED S19Unused


\* ------------------------------------------------ run_monte_carlo (875-929)
\* num_runs of the call; MONTE_CARLO_RUNS in the script
McNumRuns == 2

\* line 896: dataclasses.replace(params) builds a new object from the fields
\* of the dataclass; attributes that are not fields are not copied
DataclassesReplace(p) == [ f \in Fields19 |-> p[f] ]

\* lines 891-894: the monthly returns of the annual draws of a run, twelve
\* for each year
MonthlyPaths(p) ==
    LET monthly == [ r \in AnnualReturns19 |-> MonthlyFromAnnual(r) ]
    IN  { [ m \in 1..(p.laufzeit * MonthsPerYear) |->
              monthly[a[((m - 1) \div MonthsPerYear) + 1]] ] :
            a \in [ 1..p.laufzeit -> AnnualReturns19 ] }

\* the columns of the log that do not depend on the inflation draws
NominalLog(log) ==
    [ i \in 1..Len(log) |->
        [ Datum |-> log[i].Datum, Depotwert |-> log[i].Depotwert, kum |-> log[i].kum ] ]

\* lines 875-887: the call of run_monte_carlo by the script, after its
\* deterministic run (line 1138), or by a caller that has run nothing before.
\* mc.params is the caller's object; vorher (its state at the call), runs (the
\* path and the log of each finished run) and det (the log of the run before
\* the call) are history fields.
McStart ==
    /\ pc \in {"s19_init", "s19_done"}
    /\ mc.i < 0
    /\ mc' = [ i |-> 0,
               num_runs |-> McNumRuns,
               params |-> params,
               vorher |-> params,
               end_of_beitrags_period_index |->
                   IF params.beitragszahldauer * MonthsPerYear
                        >= params.laufzeit * MonthsPerYear
                   THEN params.laufzeit * MonthsPerYear - 1
                   ELSE params.beitragszahldauer * MonthsPerYear,
               monthly_returns |-> <<>>,
               final_values |-> <<>>,
               runs |-> <<>>,
               det |-> NominalLog(monatliche_kosten_logs) ]
    /\ pc' = "mc_loop"
    /\ loc' = [ handler |-> "mc_start" ]
    /\ UNCHANGED << params, monthly_inflation_rate, month, portfolio, next_id,
                    freistellungs_topf, monthly_investment, kum,
                    kumulierte_inflation_factor, abschlusskosten_rest, cashflows,
                    real_cashflows, cashflow_dates, monatliche_kosten_logs,
                    rebalancing_log >>
    /\ UNCHANGED S19Unused

\* lines 889-897: the draws of a run, the copy of the params and the
\* simulator of the run
McRunStart ==
    /\ pc = "mc_loop"
    /\ mc.i < mc.num_runs
    /\ \E path \in MonthlyPaths(mc.params) :
           mc' = [ mc EXCEPT !.monthly_returns = path ]
    /\ params' = DataclassesReplace(mc.params)
    /\ S19Constructed(params')
    /\ month' = 0
    /\ pc' = "s19_init"
    /\ loc' = [ handler |-> "mc_run_start" ]
    /\ UNCHANGED S19Unused

\* lines 898-900: the value of the run at the end of the contribution phase
McRunEnd ==
    /\ pc = "s19_done"
    /\ mc.i >= 0
    /\ mc' = [ mc EXCEPT
                 !.i = @ + 1,
                 !.final_values =
                     Append(@, monatliche_kosten_logs[
                                   mc.end_of_beitrags_period_index + 1].Depotwert),
                 !.runs = Append(@, [ path |-> mc.monthly_returns,
                                      log |-> NominalLog(monatliche_kosten_logs),
                                      params |-> params ]) ]
    /\ pc' = "mc_loop"
    /\ loc' = [ handler |-> "mc_run_end" ]
    /\ UNCHANGED << params, monthly_inflation_rate, month, portfolio, next_id,
                    freistellungs_topf, monthly_investment, kum,
                    kumulierte_inflation_factor, abschlusskosten_rest, cashflows,
                    real_cashflows, cashflow_dates, monatliche_kosten_logs,
                    rebalancing_log >>
    /\ UNCHANGED S19Unused

\* lines 902-928: the statistics of the batch
McReturn ==
    /\ pc = "mc_loop"
    /\ ~(mc.i < mc.num_runs)
    /\ mc' = [ mean_value |-> RoundDiv(SumSeq(mc.final_values), Len(mc.final_values)) ]
             @@ mc
    /\ pc' = "mc_done"
    /\ loc' = [ handler |-> "mc_return" ]
    /\ UNCHANGED << params, monthly_inflation_rate, month, portfolio, next_id,
                    freistellungs_topf, monthly_investment, kum,
                    kumulierte_inflation_factor, abschlusskosten_rest, cashflows,
                    real_cashflows, cashflow_dates, monatliche_kosten_logs,
                    rebalancing_log >>
    /\ UNCHANGED S19Unused

S19Next ==
    \/ S19InitialisiereSimulation
    \/ S19MonatStart
    \/ S19HandleMonthlyInvestment
    \/ S19HandleCosts
    \/ S19Wertentwicklung
    \/ S19HandleTaxes
    \/ S19HandleRebalancing
    \/ S19HandleWithdrawals
    \/ S19LogMonat
    \/ S19FinalisiereSimulation
    \/ McStart
    \/ McRunStart
    \/ McRunEnd
    \/ McReturn

Spec19 == S19Init /\ [][S19Next]_vars


\* ------------------------------------------------------------------- C14
\* the steps that pay a contribution in: the initial lump sum, the extra
\* payments and the recurring contribution
ContributionSteps == { "init", "sonderzahlung", "sparrate", "s19_init", "s19_investment" }

\* the steps that deduct fees or taxes inside the ledger
FeeAndTaxSteps == { "kosten", "steuern", "s19_costs", "s19_taxes" }

\* the steps that pay out: a withdrawal or the final payout
PayoutSteps == { "entnahme_ende", "finale", "s19_withdrawals", "s19_finale" }

\* the entries that a step appends to the cash-flow list
NewCashflows ==
    IF Len(cashflows') > Len(cashflows)
    THEN SubSeq(cashflows', Len(cashflows) + 1, Len(cashflows'))
    ELSE <<>>

\* C14: a negative cash-flow entry is appended only by a step that pays a
\* contribution in, a step that deducts fees or taxes inside the ledger
\* appends no cash-flow entry, and a withdrawal or the final payout appends
\* no negative entry.
C14_CashflowSignConvention ==
    [][ /\ \A i \in 1..Len(NewCashflows) :
              (NewCashflows[i] < 0) => (pc \in ContributionSteps)
        /\ (pc \in FeeAndTaxSteps) => (NewCashflows = <<>>)
        /\ (pc \in PayoutSteps) =>
              (\A i \in 1..Len(NewCashflows) : NewCashflows[i] >= 0) ]_vars


\* ------------------------------------------------------------------- C15
\* C15: no step of run_simulation changes the params object of the simulator:
\* every field keeps its value and no attribute is added, so that after the
\* run the object is as it was before the run.  (The step of run_monte_carlo
\* that builds the simulator of the next run binds another object and is not
\* a step of run_simulation.)
C15_ParamsNeverMutated ==
    [][ (pc # "mc_loop") => (params' = params) ]_vars


\* ------------------------------------------------------------------- C16
\* the return path of a run whose annual draws all equal the annual return of
\* the params
ErwarteterPfad(p) ==
    LET r == MonthlyFromAnnual(p.annual_return)
    IN  [ m \in 1..(p.laufzeit * MonthsPerYear) |-> r ]

\* C16: the simulator of every run of run_monte_carlo starts with an empty
\* ledger, empty logs and cash flows, zero counters and the full allowance of
\* the params; two runs of a batch on the same return path have the same
\* nominal log, whatever ran before them, and a run on the path of the
\* expected return has the nominal log of the simulation that the caller ran
\* alone before the batch; the caller's params object is as it was at the call.
C16_MonteCarloRunsIndependent ==
    (mc.i >= 0) =>
        /\ mc.params = mc.vorher
        /\ (pc = "s19_init") =>
              /\ portfolio = <<>>
              /\ monatliche_kosten_logs = <<>>
              /\ cashflows = <<>>
              /\ rebalancing_log = <<>>
              /\ kum = KumZero
              /\ freistellungs_topf = mc.params.freistellungsauftrag_jahr
              /\ monthly_investment = mc.params.monthly_investment
        /\ \A j, k \in 1..Len(mc.runs) :
              (mc.runs[j].path = mc.runs[k].path) => (mc.runs[j].log = mc.runs[k].log)
        /\ (mc.det # <<>> /\ mc.runs # <<>>) =>
              LET pfad == ErwarteterPfad(mc.params)
              IN  \A k \in 1..Len(mc.runs) :
                      (mc.runs[k].path = pfad) => (mc.runs[k].log = mc.det)

\* a batch has ended whose second run is on the path of the expected return,
\* after a first run on another path and after a simulation run alone
C16_Witness ==
    /\ pc = "mc_done"
    /\ Len(mc.runs) = 2
    /\ mc.det # <<>>
    /\ mc.runs[1].path # mc.runs[2].path
    /\ mc.runs[2].path = ErwarteterPfad(mc.params)
    /\ mc.runs[1].log # mc.runs[2].log


\* ======================================== monte_carlo_simulator.py (97-184)
\* run_monte_carlo_simulation computes value paths of a savings plan.  mc
\* holds its arguments (mc.arg) and locals; quellen is a history field: for
\* every month of the path, where the return of the month came from.

\* the variables of the simulator, which the driver does not touch
SimulatorVars ==
    << params, monthly_return, monthly_inflation_rate, month, portfolio, next_id,
       freistellungs_topf, monthly_investment, kum, kumulierte_inflation_factor,
       death_triggered, abschlusskosten_rest, monatliche_abschlusskosten_fix,
       verrechnungs_monate_verbleibend, cashflows, real_cashflows, cashflow_dates,
       monatliche_kosten_logs, rebalancing_log, final >>

\* line 157: np.random.normal(mean_return, std_dev), a draw below or above
\* the mean; the mean itself when std_dev is 0
Draws(mean_return, std_dev) ==
    IF std_dev = 0 THEN {mean_return}
    ELSE {mean_return - std_dev, mean_return + std_dev}

\* the worst_returns of a call, monthly returns in basis points
WorstReturns == << -500, -400, -300 >>

\* an entnahme_plan of the driver: a withdrawal at the end of year 1
DriverEntnahmePlan == (1 :> 1200)

DriverArg(years, scenario, std_dev, bzd, death_year, plan) ==
    [ mean_return |-> 100,
      std_dev |-> std_dev,
      initial_investment |-> IF years > 1 THEN 100 ELSE 10000,
      years |-> years,
      num_simulations |-> 1,
      scenario |-> scenario,
      worst_returns |-> IF scenario = "worst_simulated"
                        THEN [ m \in 1..(years * MonthsPerYear) |-> -200 ]
                        ELSE WorstReturns,
      monthly_investment |-> IF years > 1 THEN 4 ELSE 400,
      monthly_dynamik_rate |-> 500,
      dynamik_turnus_monate |-> 6,
      beitragszahldauer_monate |-> bzd,
      entnahme_plan |-> plan,
      death_year |-> death_year,
      ruecknahmeabschlag |-> 20 ]

\* the calls of the driver: short horizons with random draws, and horizons
\* beyond the twentieth year with draws that equal the mean and amounts of a
\* hundredth
DriverArgs ==
    { DriverArg(1, s, sd, bzd, dy, plan) :
        s \in {"normal", "start", "withdrawal", "worst_simulated"},
        sd \in {0, 100}, bzd \in {0, 6}, dy \in {0, 1},
        plan \in {<<>>, DriverEntnahmePlan} }
    \cup
    { DriverArg(20, s, 0, bzd, 0, <<>>) :
        s \in {"start", "withdrawal"}, bzd \in {6, 228} }

\* line 106: year_intervals
FixedYearIntervals == {1, 2, 5, 10, 15, 20, 25}

\* lines 106-109: the checkpoint years of a call with horizon years
YearIntervals(years) == FixedYearIntervals \cup {years}

\* lines 174-176: the value of month + 1 is recorded for simulation i if
\* month + 1 is the end of a checkpoint year
RecordCheckpoint(fv, i, monat, wert) ==
    IF monat \in { y * MonthsPerYear : y \in DOMAIN fv }
    THEN [ fv EXCEPT ![monat \div MonthsPerYear][i] = wert ]
    ELSE fv

\* lines 97-117: the call
McsAufruf(arg) ==
    /\ mc' = [ i |-> 0, arg |-> arg, path |-> <<>>, month |-> 0,
               current_monthly_investment |-> 0, death_triggered_in_sim |-> FALSE,
               quellen |-> <<>>, simulation_results |-> <<>>,
               final_values_at_years |->
                   [ y \in YearIntervals(arg.years) |->
                       [ i \in 1..arg.num_simulations |-> 0 ] ] ]
    /\ pc' = "mcs_simulation"
    /\ loc' = [ handler |-> "mcs_aufruf" ]
    /\ UNCHANGED SimulatorVars

\* a call of the driver by a script of its own
McsAufrufFrei ==
    /\ pc = "mcs_call"
    /\ \E arg \in DriverArgs : McsAufruf(arg)

\* lines 119-124: the start of the path of a simulation
McsPfadStart ==
    /\ pc = "mcs_simulation"
    /\ mc.i < mc.arg.num_simulations
    /\ mc' = [ mc EXCEPT !.path = << mc.arg.initial_investment >>,
                         !.month = 0,
                         !.current_monthly_investment = mc.arg.monthly_investment,
                         !.death_triggered_in_sim = FALSE,
                         !.quellen = <<>> ]
    /\ pc' = "mcs_monat"
    /\ loc' = [ handler |-> "mcs_pfad_start" ]
    /\ UNCHANGED SimulatorVars

\* lines 150-157: where the return of month m comes from; index counts
\* worst_returns from 0
McsQuelle(arg, m) ==
    IF arg.scenario = "start" /\ m < Len(arg.worst_returns)
    THEN [ art |-> "worst", index |-> m ]
    ELSE IF /\ arg.scenario = "withdrawal"
            /\ 19 * 12 <= m
            /\ m < 19 * 12 + Len(arg.worst_returns)
         THEN [ art |-> "worst", index |-> m - 19 * 12 ]
         ELSE IF arg.scenario = "worst_simulated"
              THEN [ art |-> "worst", index |-> m ]
              ELSE [ art |-> "random", index |-> -1 ]

\* lines 126-173: one month of the path, with the return r of the month
McsMonatswert(r, tod) ==
    LET arg == mc.arg
        m == mc.month
        wert == mc.path[m + 1]
        cmi == IF ~tod /\ arg.monthly_dynamik_rate > 0 /\ m > 0
                  /\ m % arg.dynamik_turnus_monate = 0
               THEN MulDiv(mc.current_monthly_investment,
                           RateDen + arg.monthly_dynamik_rate, RateDen)
               ELSE mc.current_monthly_investment
        nach_rendite ==
            IF tod THEN MulDiv(wert, RateDen - arg.ruecknahmeabschlag, RateDen)
            ELSE MulDiv(wert + (IF m < arg.beitragszahldauer_monate THEN cmi ELSE 0),
                        RateDen + r, RateDen)
        current_year_index == (m + 1) \div MonthsPerYear
        entnahme == IF (m + 1) % MonthsPerYear = 0
                       /\ current_year_index \in DOMAIN arg.entnahme_plan
                    THEN arg.entnahme_plan[current_year_index] ELSE 0
    IN  [ wert |-> nach_rendite - entnahme, cmi |-> cmi ]

McsMonat ==
    /\ pc = "mcs_monat"
    /\ mc.month < mc.arg.years * MonthsPerYear
    /\ LET arg == mc.arg
           tod == /\ arg.death_year # 0
                  /\ (mc.month + 1) \div MonthsPerYear = arg.death_year
                  /\ ~mc.death_triggered_in_sim
           quelle == IF tod THEN [ art |-> "tod", index |-> -1 ]
                     ELSE McsQuelle(arg, mc.month)
       IN  \E r \in IF quelle.art = "worst" THEN { arg.worst_returns[quelle.index + 1] }
                    ELSE IF quelle.art = "tod" THEN {0}
                    ELSE Draws(arg.mean_return, arg.std_dev) :
              LET n == McsMonatswert(r, tod)
              IN  mc' = [ mc EXCEPT
                            !.path = Append(@, n.wert),
                            !.current_monthly_investment = n.cmi,
                            !.death_triggered_in_sim = @ \/ tod,
                            !.final_values_at_years =
                                RecordCheckpoint(@, mc.i + 1, mc.month + 1, n.wert),
                            !.quellen = Append(@, [ art |-> quelle.art,
                                                    index |-> quelle.index,
                                                    rendite |-> r ]),
                            !.month = @ + 1 ]
    /\ pc' = "mcs_monat"
    /\ loc' = [ handler |-> "mcs_monat" ]
    /\ UNCHANGED SimulatorVars

\* lines 175-179: the path of the simulation is stored
McsPfadEnde ==
    /\ pc = "mcs_monat"
    /\ ~(mc.month < mc.arg.years * MonthsPerYear)
    /\ mc' = [ mc EXCEPT !.simulation_results = Append(@, mc.path), !.i = @ + 1 ]
    /\ pc' = "mcs_simulation"
    /\ loc' = [ handler |-> "mcs_pfad_ende" ]
    /\ UNCHANGED SimulatorVars

\* line 181
McsRueckgabe ==
    /\ pc = "mcs_simulation"
    /\ ~(mc.i < mc.arg.num_simulations)
    /\ pc' = "mcs_done"
    /\ loc' = [ handler |-> "mcs_rueckgabe" ]
    /\ UNCHANGED mc
    /\ UNCHANGED SimulatorVars

DriverNext ==
    \/ McsAufrufFrei
    \/ McsPfadStart
    \/ McsMonat
    \/ McsPfadEnde
    \/ McsRueckgabe

\* a script that calls the driver: no simulator has run
DriverInit ==
    /\ params = MakeParams(FALSE, "normal", 0, 0, 10000, "monatlich")
    /\ mc = NoMc
    /\ monthly_return = 0
    /\ monthly_inflation_rate \in InflationRates
    /\ month = 0
    /\ pc = "mcs_call"
    /\ portfolio = <<>>
    /\ next_id = 0
    /\ freistellungs_topf = params.freistellungsauftrag_jahr
    /\ monthly_investment = params.monthly_investment
    /\ kum = KumZero
    /\ kumulierte_inflation_factor = RateDen
    /\ death_triggered = FALSE
    /\ abschlusskosten_rest = 0
    /\ monatliche_abschlusskosten_fix = 0
    /\ verrechnungs_monate_verbleibend = 0
    /\ cashflows = <<>>
    /\ real_cashflows = <<>>
    /\ cashflow_dates = <<>>
    /\ monatliche_kosten_logs = <<>>
    /\ rebalancing_log = <<>>
    /\ loc = NoLoc
    /\ final = NoFinal

SpecDriver == DriverInit /\ [][DriverNext]_vars

\* ------------------------------------------------------------------- C19
\* C19: the return of month m of a path is worst_returns[m] for the months
\* 0 .. len(worst_returns) - 1 under scenario 'start', worst_returns[m -
\* beitragszahldauer_monate] for the months beitragszahldauer_monate ..
\* beitragszahldauer_monate + len(worst_returns) - 1 under scenario
\* 'withdrawal', and a random draw in every other month of these scenarios.
\* (The month of the death reset has no return and is left out.)
C19_WorstCaseInjectionOffset ==
    (pc \in {"mcs_monat", "mcs_simulation", "mcs_done"}
        /\ mc.arg.scenario \in {"start", "withdrawal"}) =>
        LET arg == mc.arg
            offset == IF arg.scenario = "start" THEN 0
                      ELSE arg.beitragszahldauer_monate
        IN  \A m \in 0..(Len(mc.quellen) - 1) :
                LET q == mc.quellen[m + 1]
                IN  (q.art # "tod") =>
                      IF offset <= m /\ m < offset + Len(arg.worst_returns)
                      THEN /\ q.art = "worst"
                           /\ q.rendite = arg.worst_returns[m - offset + 1]
                      ELSE q.art = "random"


\* ------------------------------------------------------------------- C17
\* Gutachten.py lines 909-921: run_all_scenarios calls the driver with the
\* amounts of the params of the simulation it has just run; here the returns
\* of the driver are those of the simulation (std_dev = 0 around its
\* monthly return), so that both run on the same return path and deposits.
McsAufrufNachSimulation ==
    /\ pc = "done"
    /\ McsAufruf([ mean_return |-> monthly_return,
                   std_dev |-> 0,
                   initial_investment |-> params.initial_investment,
                   years |-> params.laufzeit,
                   num_simulations |-> 1,
                   scenario |-> "normal",
                   worst_returns |-> <<>>,
                   monthly_investment |-> params.monthly_investment,
                   monthly_dynamik_rate |-> params.monthly_dynamik_rate,
                   dynamik_turnus_monate |-> params.dynamik_turnus_monate,
                   beitragszahldauer_monate |-> params.beitragszahldauer * MonthsPerYear,
                   entnahme_plan |-> <<>>,
                   death_year |-> 0,
                   ruecknahmeabschlag |-> 0 ])

ReplayNext ==
    \/ Next
    \/ McsAufrufNachSimulation
    \/ McsPfadStart
    \/ McsMonat
    \/ McsPfadEnde
    \/ McsRueckgabe

\* simulations of a year or more without a death year
ReplayInit ==
    /\ Init
    /\ params.laufzeit >= 1
    /\ params.death_year = 0

SpecReplay == ReplayInit /\ [][ReplayNext]_vars

\* C17: when the driver has run on the return path and the deposits of a
\* simulation, its value path[m + 1] is the portfolio value that the
\* simulator logged for period m, for every period m (up to one unit of
\* rounding for each lot of the ledger).
C17_DriverReplaysSimulator ==
    (pc = "mcs_done" /\ Len(monatliche_kosten_logs) > 0) =>
        \A m \in 0..(mc.arg.years * MonthsPerYear - 1) :
            Abs(mc.simulation_results[1][m + 2]
                - monatliche_kosten_logs[m + 1].Depotwert) <= m + 2


\* ================================= monte_carlo_simulator.py (44-95): the
\* worst three years.  Values of a path are whole numbers; a return is kept
\* as the exact fraction [n, d] that stands for 1 + return = n / d, in lowest
\* terms, so that returns are compared without rounding.

Frac(n, d) == LET g == GCD(n, d) IN [ n |-> n \div g, d |-> d \div g ]
FracMul(a, b) == Frac(a.n * b.n, a.d * b.d)
FracLess(a, b) == a.n * b.d < b.n * a.d
FracOne == [ n |-> 1, d |-> 1 ]

\* the product of the first k elements of s
RECURSIVE FracProdTo(_, _)
FracProdTo(s, k) ==
    IF k = 0 THEN FracOne
    ELSE LET vorher == FracProdTo(s, k - 1)
         IN  FracMul(vorher, s[k])

FracProd(s) == FracProdTo(s, Len(s))

\* the elements of series that lie in the calendar years from..to; the
\* months of a series are in the order of time
YearsOf(series, from, to) ==
    LET ks == { k \in 1..Len(series) : series[k].year >= from /\ series[k].year <= to }
    IN  IF ks = {} THEN <<>>
        ELSE SubSeq(series, CHOOSE k \in ks : \A j \in ks : k <= j,
                            CHOOSE k \in ks : \A j \in ks : k >= j)

\* the horizon of the simulated paths, in years, and the number of paths
WorstYears == 4
WorstPaths == 2

\* the values of a path at the ends of the years
Anchors == {10, 20}

\* a path of WorstYears * 12 + 1 monthly values: the value of the year's start
\* holds through the year, one unit higher in the middle of the year when
\* the path swings
PathOf(anchor, swing) ==
    [ k \in 1..(WorstYears * MonthsPerYear + 1) |->
        LET m == k - 1
        IN  anchor[(m \div MonthsPerYear) + 1]
            + (IF swing /\ m % MonthsPerYear = 6 THEN 1 ELSE 0) ]

ResultMatrices ==
    { [ i \in 1..WorstPaths |-> PathOf(a[i], swing) ] :
        a \in [ 1..WorstPaths -> [ 1..(WorstYears + 1) -> Anchors ] ],
        swing \in BOOLEAN }

\* lines 49-55: annual_returns[i, y], y counted from 0
AnnualReturn(results, i, y) ==
    LET start_value == results[i][y * MonthsPerYear + 1]
        end_value == results[i][(y + 1) * MonthsPerYear + 1]
    IN  IF start_value > 0 THEN Frac(end_value, start_value) ELSE FracOne

\* lines 57-61: rolling_returns[i, y]
RollingReturn(results, i, y) ==
    FracMul(FracMul(AnnualReturn(results, i, y), AnnualReturn(results, i, y + 1)),
            AnnualReturn(results, i, y + 2))

\* np.min over a row of rolling_returns
RowMin(results, i, years) ==
    LET ys == 0..(years - 3)
    IN  RollingReturn(results, i,
            CHOOSE y \in ys :
                \A z \in ys : ~FracLess(RollingReturn(results, i, z),
                                        RollingReturn(results, i, y)))

\* mutant of WorstPathIndex: the first path, whatever its returns
ErsterPfad(results, years) == 1

\* line 63: np.argmin(np.min(rolling_returns, axis=1)), the first path whose
\* worst window is the worst of all
WorstPathIndex(results, years) ==
    LET is == 1..Len(results)
        minimal(i) == \A j \in is : ~FracLess(RowMin(results, j, years),
                                              RowMin(results, i, years))
    IN  CHOOSE i \in is : minimal(i) /\ \A j \in is : (minimal(j) => i <= j)

\* line 64: np.argmin(rolling_returns[worst_path_index, :])
WorstStartYear(results, i, years) ==
    LET ys == 0..(years - 3)
        minimal(y) == \A z \in ys : ~FracLess(RollingReturn(results, i, z),
                                              RollingReturn(results, i, y))
    IN  CHOOSE y \in ys : minimal(y) /\ \A z \in ys : (minimal(z) => y <= z)

\* line 67: np.min(rolling_returns)
WorstPeriodReturn(results, years) ==
    LET is == 1..Len(results)
        i == CHOOSE i \in is :
                 \A j \in is : ~FracLess(RowMin(results, j, years),
                                         RowMin(results, i, years))
    IN  RowMin(results, i, years)

\* lines 44-79: get_worst_3_years_from_simulations
GetWorst3YearsFromSimulations(results, years) ==
    LET worst_path_index == WorstPathIndex(results, years)
        worst_period_start_year == WorstStartYear(results, worst_path_index, years)
        worst_period_start_month == worst_period_start_year * MonthsPerYear
        path_values ==
            SubSeq(results[worst_path_index], worst_period_start_month + 1,
                   worst_period_start_month + 3 * MonthsPerYear + 1)
    IN  [ worst_monthly_returns |->
              [ k \in 1..(3 * MonthsPerYear) |-> Frac(path_values[k + 1], path_values[k]) ],
          worst_period_return |-> WorstPeriodReturn(results, years),
          worst_path_index |-> worst_path_index,
          worst_period_start_year |-> worst_period_start_year ]

\* the historical series of a script: the monthly returns of a path, with the
\* calendar year of each month; the series starts in FirstYear
FirstYear == 2000
SeriesOf(path) ==
    [ k \in 1..(Len(path) - 1) |->
        [ year |-> FirstYear + (k - 1) \div MonthsPerYear,
          ret |-> Frac(path[k + 1], path[k]) ] ]

\* line 86: the compounded return of calendar year y
ReturnOfYear(series, y) ==
    LET monate == YearsOf(series, y, y)
    IN  FracProd([ k \in 1..Len(monate) |-> monate[k].ret ])

\* lines 81-95: get_worst_3_years.  The rolling window of three rows ends in
\* the years from the third year of the series on.
GetWorst3Years(series) ==
    LET years == { series[k].year : k \in 1..Len(series) }
        first == CHOOSE y \in years : \A z \in years : y <= z
        ends == { y \in years : y >= first + 2 }
        rolling(y) == FracMul(FracMul(ReturnOfYear(series, y - 2),
                                      ReturnOfYear(series, y - 1)),
                              ReturnOfYear(series, y))
        minimal(y) == \A z \in ends : ~FracLess(rolling(z), rolling(y))
        idxmin == CHOOSE y \in ends : minimal(y) /\ \A z \in ends : (minimal(z) => y <= z)
        worst_period_start_year == idxmin - 2
    IN  [ worst_period_returns |->
              YearsOf(series, worst_period_start_year, worst_period_start_year + 2),
          worst_period_start_year |-> worst_period_start_year,
          worst_period_return |-> rolling(idxmin) ]

\* Gutachten.py line 946: the script extracts the worst years of the history
WorstHistorical ==
    /\ pc = "worst_call"
    /\ mc' = [ mc EXCEPT !.historical = GetWorst3Years(mc.monthly_returns) ]
    /\ pc' = "worst_hist_done"
    /\ loc' = [ handler |-> "worst_historical" ]
    /\ UNCHANGED SimulatorVars

\* Gutachten.py line 971: and then those of the simulated paths
WorstSimulated ==
    /\ pc = "worst_hist_done"
    /\ mc' = [ mc EXCEPT
                 !.simulated = GetWorst3YearsFromSimulations(mc.results, mc.years) ]
    /\ pc' = "worst_done"
    /\ loc' = [ handler |-> "worst_simulated" ]
    /\ UNCHANGED SimulatorVars

WorstNext == WorstHistorical \/ WorstSimulated

\* the script holds a matrix of simulated paths and a historical series
WorstInit ==
    /\ \E results \in ResultMatrices :
          mc = [ i |-> -1, results |-> results, years |-> WorstYears,
                 monthly_returns |-> SeriesOf(results[1]),
                 historical |-> <<>>, simulated |-> <<>> ]
    /\ pc = "worst_call"
    /\ params = MakeParams(FALSE, "normal", 0, 0, 10000, "monatlich")
    /\ monthly_return = 0
    /\ monthly_inflation_rate \in InflationRates
    /\ month = 0
    /\ portfolio = <<>>
    /\ next_id = 0
    /\ freistellungs_topf = params.freistellungsauftrag_jahr
    /\ monthly_investment = params.monthly_investment
    /\ kum = KumZero
    /\ kumulierte_inflation_factor = RateDen
    /\ death_triggered = FALSE
    /\ abschlusskosten_rest = 0
    /\ monatliche_abschlusskosten_fix = 0
    /\ verrechnungs_monate_verbleibend = 0
    /\ cashflows = <<>>
    /\ real_cashflows = <<>>
    /\ cashflow_dates = <<>>
    /\ monatliche_kosten_logs = <<>>
    /\ rebalancing_log = <<>>
    /\ loc = NoLoc
    /\ final = NoFinal

SpecWorst == WorstInit /\ [][WorstNext]_vars

\* ------------------------------------------------------------------- C18
\* the compounded return of the three years of path i that start in year y
\* (counted from 0): the value at the end of the window over the value at
\* its start
WindowReturn(results, i, y) ==
    Frac(results[i][(y + 3) * MonthsPerYear + 1], results[i][y * MonthsPerYear + 1])

\* the monthly returns of that window
WindowMonthly(results, i, y) ==
    [ k \in 1..(3 * MonthsPerYear) |->
        Frac(results[i][y * MonthsPerYear + k + 1], results[i][y * MonthsPerYear + k]) ]

\* C18: the cumulative return that get_worst_3_years_from_simulations returns
\* is the least compounded 3-year return over all paths and all windows of 3
\* consecutive years; the 36 monthly returns it returns are those of a window
\* that attains it, and compound to it.  get_worst_3_years returns the start
\* year and the compounded return of the least window of 3 calendar years of
\* the series, and the monthly returns of these years.
C18_WorstThreeYears ==
    /\ (pc = "worst_done") =>
          LET out == mc.simulated
              windows == (1..WorstPaths) \X (0..(mc.years - 3))
          IN  /\ \A w \in windows :
                    ~FracLess(WindowReturn(mc.results, w[1], w[2]),
                              out.worst_period_return)
              /\ \E w \in windows :
                    /\ WindowReturn(mc.results, w[1], w[2]) = out.worst_period_return
                    /\ WindowMonthly(mc.results, w[1], w[2]) = out.worst_monthly_returns
              /\ FracProd(out.worst_monthly_returns) = out.worst_period_return
    /\ (pc \in {"worst_hist_done", "worst_done"}) =>
          LET out == mc.historical
              y0 == out.worst_period_start_year - FirstYear
              starts == 0..(mc.years - 3)
          IN  /\ y0 \in starts
              /\ \A y \in starts :
                    ~FracLess(WindowReturn(mc.results, 1, y), out.worst_period_return)
              /\ WindowReturn(mc.results, 1, y0) = out.worst_period_return
              /\ [ k \in 1..Len(out.worst_period_returns) |->
                     out.worst_period_returns[k].ret ]
                   = WindowMonthly(mc.results, 1, y0)

\* the worst window is not the first window of the first path, and the paths
\* swing inside the years
C18_Witness ==
    /\ pc = "worst_done"
    /\ mc.simulated.worst_path_index = 2
    /\ mc.simulated.worst_period_start_year = 1
    /\ mc.historical.worst_period_start_year = FirstYear + 1
    /\ mc.results[1][7] # mc.results[1][1]
    /\ FracLess(mc.simulated.worst_period_return, mc.historical.worst_period_return)

\* ------------------------------------------------- growth without deductions
\* The configuration of the end-to-end scenario: no fee, no tax rate, no
\* rebalancing, no extra payment, no escalation, no withdrawal plan and a
\* contribution phase that lasts to the end of the horizon (a withdrawal phase
\* of 0 months); no mortality event.
GrowthParams(vers, init, rate, l) ==
    [ MakeParams(vers, "normal", 0, 1000, init, "monatlich") EXCEPT
        !.monthly_investment = rate,
        !.laufzeit = l,
        !.beitragszahldauer = l,
        !.monthly_dynamik_rate = 0,
        !.sonderzahlung_betrag = 0,
        !.regel_sonderzahlung_betrag = 0,
        !.annual_withdrawal = 0,
        !.entnahme_plan = <<>>,
        !.abgeltungssteuer_rate = 0,
        !.soli_zuschlag_on_abgeltungssteuer = 0,
        !.kirchensteuer_on_abgeltungssteuer = 0,
        !.persoenlicher_steuersatz = 0,
        !.ausgabeaufschlag = 0,
        !.monthly_ausgabeaufschlag = 0,
        !.ruecknahmeabschlag = 0,
        !.ter = 0,
        !.serviceentgelt = 0,
        !.stueckkosten = 0,
        !.rebalancing_rate = 0,
        !.guthabenkosten = 0,
        !.abschlusskosten_einmalig_prozent = 0,
        !.abschlusskosten_monatlich_prozent = 0,
        !.verwaltungskosten_monatlich_prozent = 0 ]

GrowthInitials == {0, 10000}
GrowthContributions == {0, 4, 400}
\* 49 basis points a month: (1 + 0.06) ** (1/12) - 1
GrowthReturns == MonthlyReturns \cup {49}

GrowthParamSet ==
    { GrowthParams(vers, init, rate, l) :
        vers \in BOOLEAN, init \in GrowthInitials, rate \in GrowthContributions,
        l \in 1..MaxLaufzeit }

\* the state after SparplanSimulator.__init__ with such a configuration
GrowthInit ==
    /\ params \in GrowthParamSet
    /\ monthly_return \in GrowthReturns
    /\ monthly_inflation_rate \in InflationRates
    /\ month = 0
    /\ pc = "init"
    /\ portfolio = <<>>
    /\ next_id = 0
    /\ freistellungs_topf = params.freistellungsauftrag_jahr
    /\ monthly_investment = params.monthly_investment
    /\ kum = KumZero
    /\ kumulierte_inflation_factor = RateDen
    /\ death_triggered = FALSE
    /\ abschlusskosten_rest = 0
    /\ monatliche_abschlusskosten_fix = 0
    /\ verrechnungs_monate_verbleibend = 0
    /\ cashflows = <<>>
    /\ real_cashflows = <<>>
    /\ cashflow_dates = <<>>
    /\ monatliche_kosten_logs = <<>>
    /\ rebalancing_log = <<>>
    /\ loc = NoLoc
    /\ final = NoFinal
    /\ mc = NoMc

\* run_simulation with such a configuration: the handlers run, their sale
\* loops are not entered
GrowthNext ==
    \/ InitialisiereSimulation
    \/ MonatStart
    \/ Dynamik
    \/ Sonderzahlung
    \/ Sparrate
    \/ MonatlicheKostenAbziehen
    \/ Wertentwicklung
    \/ Inflation
    \/ HandleTaxes
    \/ HandleRebalancing
    \/ HandleWithdrawals
    \/ LogMonat
    \/ Snapshot
    \/ FinalisiereSimulation

SpecGrowth == GrowthInit /\ [][GrowthNext]_vars

\* x * (1 + r) ** n in the arithmetic of the ledger: n multiplications by
\* (1 + r), each rounded to the unit of money
RECURSIVE Grown(_, _, _)
Grown(x, r, n) ==
    IF n = 0 THEN x
    ELSE LET vorher == Grown(x, r, n - 1)
         IN  MulDiv(vorher, RateDen + r, RateDen)

\* sum over k = 0..m of contribution * (1 + r) ** (m + 1 - k), the terms from
\* k = m downwards
RECURSIVE GrownContributions(_, _, _, _)
GrownContributions(contribution, r, m, vorher) ==
    IF m < 0 THEN 0
    ELSE LET term == MulDiv(vorher, RateDen + r, RateDen)
         IN  term + GrownContributions(contribution, r, m - 1, term)

\* initial * (1 + r) ** (m + 1) + sum over k = 0..m of
\* contribution * (1 + r) ** (m + 1 - k)
ClosedForm(initial, contribution, r, m) ==
    Grown(initial, r, m + 1) + GrownContributions(contribution, r, m, contribution)

\* the record of the period that was logged last, if it is a period's record
\* and not the closing record of _finalisiere_simulation
LetztePeriode ==
    IF /\ monatliche_kosten_logs # <<>>
       /\ Len(monatliche_kosten_logs) <= params.laufzeit * MonthsPerYear
    THEN { monatliche_kosten_logs[Len(monatliche_kosten_logs)] }
    ELSE {}

\* C20: without fees, tax rates, rebalancing, extra payments, escalation and
\* withdrawals, the ledger total logged after period m (0-based) is
\* initial * (1 + r) ** (m + 1) plus the sum over k = 0..m of
\* contribution * (1 + r) ** (m + 1 - k), r the monthly return; no sale loop
\* is entered.  The log only grows, so every record is the last one in the
\* state that follows its period.
C20_ZeroFeeGrowth ==
    /\ pc \notin {"rebal_loop", "entnahme_loop"}
    /\ \A rec \in LetztePeriode :
           /\ rec.Datum = Len(monatliche_kosten_logs) - 1
           /\ rec.Depotwert = ClosedForm(params.initial_investment,
                                         params.monthly_investment,
                                         monthly_return, rec.Datum)

\* the scenario of 10,000 initial, 400 a month and 6 % a year, 12 periods
\* logged: the initial deposit has grown by 6 % and the ledger holds more than
\* what was paid in
C20_Witness ==
    /\ params.initial_investment = 10000
    /\ params.monthly_investment = 400
    /\ monthly_return = 49
    /\ Len(monatliche_kosten_logs) = MonthsPerYear
    /\ Grown(10000, 49, MonthsPerYear) \in 10595..10605
    /\ monatliche_kosten_logs[MonthsPerYear].Depotwert =
           ClosedForm(10000, 400, 49, MonthsPerYear - 1)
    /\ monatliche_kosten_logs[MonthsPerYear].Depotwert > 10000 + 400 * MonthsPerYear

\* ------------------------------------------------ realized-gain tax, Depot
\* the tax of the sale loop of a withdrawal as the rule states it: for every
\* portion sold, max(0, max(0, gain * (1 - teilfreistellung) - the sold
\* fraction of vorabpauschalen_bereits_versteuert) - allowance used) times the
\* full tax rate; q, remaining and topf are the ledger, the amount to sell and
\* the allowance bucket at the start of the loop
RECURSIVE RealizedGainTax(_, _, _, _, _)
RealizedGainTax(q, remaining, topf, teilfreistellung, full_tax_rate) ==
    IF ~(remaining > Eps) \/ q = <<>> THEN 0
    ELSE LET lot == Head(q)
         IN  IF lot.value <= 0
             THEN RealizedGainTax(Tail(q), remaining, topf, teilfreistellung,
                                  full_tax_rate)
             ELSE
               LET sell_value == Min(lot.value, remaining)
                   gain == MulDiv(lot.value - lot.amount_invested, sell_value,
                                  lot.value)
                   consumed == MulDiv(lot.vorabpauschalen_bereits_versteuert,
                                      sell_value, lot.value)
                   taxable == Max(0, MulDiv(gain, RateDen - teilfreistellung, RateDen)
                                     - consumed)
                   allowance_used == Min(topf, taxable)
               IN  Rate(Max(0, taxable - allowance_used), full_tax_rate)
                   + RealizedGainTax(Tail(q), remaining - sell_value,
                                     topf - allowance_used, teilfreistellung,
                                     full_tax_rate)

\* C21 (SparplanSimulator_250819.py): the withdrawal tax charged by a
\* withdrawal in Depot mode is the tax of the rule, in which the already-taxed
\* accrual consumed by each sold portion is subtracted from its taxable gain
\* before the rate is applied.
C21_RealizedGainTaxDepot ==
    [][ (/\ pc = "s19_withdrawals"
         /\ ~params.versicherung_modus
         /\ "sales" \in DOMAIN loc') =>
          kum'.total_withdrawal_tax_paid - kum.total_withdrawal_tax_paid =
              RealizedGainTax(portfolio,
                  S19Entnahmebetrag(params, month,
                      EntnahmebetragJahr(params,
                          CurrentYear(month) - params.beitragszahldauer + 1)),
                  freistellungs_topf, params.teilfreistellung,
                  params.full_tax_rate)
      ]_vars

\* ------------------------------------------------ accrual tax, side effects
\* the accrual assessment of January as the rule states it, lot by lot, oldest
\* first: q the ledger before the step, q2 the ledger after it, topf the
\* allowance bucket before the lot.  ok: every lot with a positive taxable
\* yield has its vorabpauschalen_bereits_versteuert raised by the yield after
\* teilfreistellung and its value lowered by the tax owed
RECURSIVE AccrualRule(_, _, _, _)
AccrualRule(q, q2, topf, p) ==
    IF q = <<>> THEN [ ok |-> q2 = <<>>, topf |-> topf, steuer |-> 0 ]
    ELSE LET lot == Head(q)
             start_value == lot.start_of_prev_year_value
             taxable_yield ==
                 NachTeilfreistellung(Min(Rate(start_value, p.basiszins),
                                          lot.value - start_value), p)
             allowance_used == Min(topf, Max(0, taxable_yield))
             tax_owed == Rate(Max(0, taxable_yield - allowance_used), FullTaxRate(p))
             rest == AccrualRule(Tail(q), IF q2 = <<>> THEN <<>> ELSE Tail(q2),
                                 topf - allowance_used, p)
         IN  [ ok |-> /\ q2 # <<>>
                      /\ rest.ok
                      /\ taxable_yield > 0 =>
                           /\ Head(q2).vorabpauschalen_bereits_versteuert =
                                  lot.vorabpauschalen_bereits_versteuert + taxable_yield
                           /\ Head(q2).value = lot.value - tax_owed,
               topf |-> rest.topf,
               steuer |-> tax_owed + rest.steuer ]

\* C22: in the accrual assessment of January (Depot mode) every lot with a
\* positive taxable yield has its already-taxed accrual raised by
\* min(notional yield, realized yield) * (1 - teilfreistellung), the whole
\* amount subjected to the assessment, and its value lowered by the tax owed;
\* the allowance bucket falls by the allowance used and the cumulative tax
\* counter rises by the tax owed.
C22_AccrualSideEffects ==
    [][ (pc = "steuern" /\ ~params.versicherung_modus /\ IsJanuary(month)) =>
          LET rule == AccrualRule(portfolio, portfolio', freistellungs_topf, params)
          IN  /\ rule.ok
              /\ freistellungs_topf' = rule.topf
              /\ kum'.total_tax_paid = kum.total_tax_paid + rule.steuer
      ]_vars

\* ------------------------------------------------- partial consumption of a lot
\* the last iteration of a sale loop sold a part of a lot and not all of it
PartialSale ==
    /\ pc \in {"rebal_loop", "entnahme_loop"}
    /\ loc.sold
    /\ 0 < loc.sell_value
    /\ loc.sell_value < loc.entry_vorher.value

\* nachher = vorher * (1 - sell_value / value), to the rounding of the unit of
\* money (half a unit), stated by cross-multiplication
ScaledDown(nachher, vorher, sell_value, value) ==
    2 * Abs(nachher * value - vorher * (value - sell_value)) <= value

\* C23: when a rebalancing or withdrawal sale sells the fraction prop,
\* 0 < prop < 1, of a lot, the sale ends with that lot (no second lot is
\* partly consumed), the lot is at the front of the ledger afterwards, and its
\* value, amount_invested and vorabpauschalen_bereits_versteuert are
\* (1 - prop) times what they were before the sale.
C23_PartialConsumption ==
    [][ PartialSale =>
          /\ pc' \notin {"rebal_loop", "entnahme_loop"}
          /\ portfolio' # <<>>
          /\ LET vorher == loc.entry_vorher
                 lot == Head(portfolio')
             IN  /\ lot.id = vorher.id
                 /\ lot.value = vorher.value - loc.sell_value
                 /\ ScaledDown(lot.amount_invested, vorher.amount_invested,
                               loc.sell_value, vorher.value)
                 /\ ScaledDown(lot.vorabpauschalen_bereits_versteuert,
                               vorher.vorabpauschalen_bereits_versteuert,
                               loc.sell_value, vorher.value)
      ]_vars

\* ------------------------------------------------------------ extra payments
\* the state after SparplanSimulator.__init__, whatever the parameters, the
\* return and the inflation draw are
SimulatorConstructed ==
    /\ month = 0
    /\ pc = "init"
    /\ portfolio = <<>>
    /\ next_id = 0
    /\ freistellungs_topf = params.freistellungsauftrag_jahr
    /\ monthly_investment = params.monthly_investment
    /\ kum = KumZero
    /\ kumulierte_inflation_factor = RateDen
    /\ death_triggered = FALSE
    /\ abschlusskosten_rest = 0
    /\ monatliche_abschlusskosten_fix = 0
    /\ verrechnungs_monate_verbleibend = 0
    /\ cashflows = <<>>
    /\ real_cashflows = <<>>
    /\ cashflow_dates = <<>>
    /\ monatliche_kosten_logs = <<>>
    /\ rebalancing_log = <<>>
    /\ loc = NoLoc
    /\ final = NoFinal
    /\ mc = NoMc

\* configurations with a recurring extra payment of 500 every year, with and
\* without a one-off extra payment, which falls into period 0 or into the
\* period of the first recurring payment
SonderParamSet ==
    { [ MakeParams(vers, "normal", 0, 20, 10000, "monatlich") EXCEPT
          !.sonderzahlung_jahr = jahr,
          !.sonderzahlung_betrag = betrag,
          !.regel_sonderzahlung_betrag = 500,
          !.regel_sonderzahlung_turnus_jahre = 1 ] :
        vers \in BOOLEAN, jahr \in {0, 1}, betrag \in {0, 1000} }

SonderInit ==
    /\ params \in SonderParamSet
    /\ monthly_return \in MonthlyReturns
    /\ monthly_inflation_rate \in InflationRates
    /\ SimulatorConstructed

SpecSonder == SonderInit /\ [][Next]_vars

\* the extra payments scheduled in period m with a positive amount, the
\* one-off payment first
ScheduledPayments(p, m) ==
    (IF m = p.sonderzahlung_jahr * MonthsPerYear /\ p.sonderzahlung_betrag > 0
     THEN << p.sonderzahlung_betrag >> ELSE <<>>)
    \o
    (IF /\ p.regel_sonderzahlung_turnus_jahre > 0
        /\ m > 0
        /\ m % (p.regel_sonderzahlung_turnus_jahre * MonthsPerYear) = 0
        /\ p.regel_sonderzahlung_betrag > 0
     THEN << p.regel_sonderzahlung_betrag >> ELSE <<>>)

\* the elements that the step appended to a sequence
Appended(vorher, nachher) == SubSeq(nachher, Len(vorher) + 1, Len(nachher))

\* s in reverse order
Reversed(s) == [ i \in 1..Len(s) |-> s[Len(s) + 1 - i] ]

\* C24: in every period the step of the extra payments appends one lot
\* (amount minus entry load) and one negative cash flow for every extra
\* payment scheduled in the period with a positive amount, the one-off and
\* the recurring one, also when both fall into the same period; it changes
\* nothing else in the ledger and the cash flows.
C24_ExtraPaymentsBothApplied ==
    [][ (pc = "sonderzahlung") =>
          LET zahlungen == ScheduledPayments(params, month)
              lots == Appended(portfolio, portfolio')
              flows == Appended(cashflows, cashflows')
              netto == [ i \in 1..Len(zahlungen) |->
                           zahlungen[i] - Rate(zahlungen[i], params.ausgabeaufschlag) ]
              minus == [ i \in 1..Len(zahlungen) |-> -zahlungen[i] ]
          IN  /\ SubSeq(portfolio', 1, Len(portfolio)) = portfolio
              /\ SubSeq(cashflows', 1, Len(cashflows)) = cashflows
              /\ [ i \in 1..Len(lots) |-> lots[i].value ] \in {netto, Reversed(netto)}
              /\ flows \in {minus, Reversed(minus)}
      ]_vars

\* ------------------------------------------------------------------ entry load
\* the steps that deposit, and the entry-load rate of each
DepositLoadRate(p, step) ==
    IF step = "sparrate" THEN p.monthly_ausgabeaufschlag
    ELSE IF step \in {"init", "sonderzahlung"} THEN p.ausgabeaufschlag
    ELSE 0

\* entry-load rate * gross amount, summed over the deposits in a sequence of
\* cash flows (a deposit is a negative cash flow)
RECURSIVE EntryLoadOf(_, _)
EntryLoadOf(flows, rate) ==
    IF flows = <<>> THEN 0
    ELSE (IF Head(flows) < 0 THEN Rate(-Head(flows), rate) ELSE 0)
         + EntryLoadOf(Tail(flows), rate)

\* C25 (Depot mode): every step of a period raises the cumulative entry-load
\* counter by entry-load rate * gross amount of the deposits the step makes,
\* once per deposit, and withholds the same amount from the lot it creates; a
\* step that makes no deposit, in particular the fee step and every step of a
\* period after the contribution phase, leaves the counter as it is.
C25_EntryLoadOnDepositsOnly ==
    [][ (~params.versicherung_modus /\ pc \notin {"finale", "done"}) =>
          LET deposits == IF pc \in {"init", "sonderzahlung", "sparrate"}
                          THEN Appended(cashflows, cashflows') ELSE <<>>
              load == EntryLoadOf(deposits, DepositLoadRate(params, pc))
          IN  /\ kum'.ausgabeaufschlag_summe = kum.ausgabeaufschlag_summe + load
              /\ pc \in {"init", "sonderzahlung", "sparrate"} =>
                     SumValues(portfolio') - SumValues(portfolio) =
                         -SumSeq(deposits) - load
      ]_vars

\* ------------------------------------------- amortization of acquisition costs
\* the total acquisition cost: the one-off percentage of the initial investment
\* plus the monthly percentage of the contributions planned for the
\* contribution phase
TotalAcquisitionCost(p) ==
    Rate(p.initial_investment, p.abschlusskosten_einmalig_prozent)
    + Rate(p.monthly_investment * p.beitragszahldauer * MonthsPerYear,
           p.abschlusskosten_monatlich_prozent)

\* the acquisition cost charged up to and including period m, according to the
\* log record of the period
ChargedUpTo(m) == monatliche_kosten_logs[m + 1].kum.abschlusskosten_summe

\* C26 (Versicherung mode, verrechnungsdauer_monate = W > 0): each of the
\* first W periods charges totalAcquisitionCost / W (to the rounding of the
\* unit of money), no later period charges acquisition cost, and at the end of
\* a horizon of at least W periods the cumulative counter is
\* totalAcquisitionCost (to the rounding of the W instalments).
C26_AcquisitionCostAmortization ==
    (params.versicherung_modus /\ params.verrechnungsdauer_monate > 0) =>
        LET W == params.verrechnungsdauer_monate
            total == TotalAcquisitionCost(params)
            rate == RoundDiv(total, W)
            periods == Min(Len(monatliche_kosten_logs), params.laufzeit * MonthsPerYear)
        IN  /\ \A m \in 0..(periods - 1) :
                   ChargedUpTo(m) - (IF m = 0 THEN 0 ELSE ChargedUpTo(m - 1)) =
                       IF m < W THEN rate ELSE 0
            /\ (pc = "done" /\ params.laufzeit * MonthsPerYear >= W) =>
                   /\ kum.abschlusskosten_summe = W * rate
                   /\ 2 * Abs(kum.abschlusskosten_summe - total) <= W

\* a run in Versicherung mode has ended: the six instalments were charged in
\* periods 0 to 5, and period 6 charged nothing
C26_Witness ==
    /\ pc = "done"
    /\ params.versicherung_modus
    /\ params.verrechnungsdauer_monate = 6
    /\ TotalAcquisitionCost(params) > 0
    /\ Len(monatliche_kosten_logs) > MonthsPerYear
    /\ ChargedUpTo(5) = kum.abschlusskosten_summe
    /\ ChargedUpTo(4) < ChargedUpTo(5)
    /\ ChargedUpTo(6) = ChargedUpTo(5)


\* ------------------------------------------------------------------ C27
\* the cumulative tax, exit load and net withdrawals a log record carries
Kumuliert(k) ==
    << k.total_tax_paid, k.total_withdrawal_tax_paid, k.ruecknahmeabschlag_summe,
       k.kumulierte_entnahmen >>

LetzterLog == monatliche_kosten_logs[Len(monatliche_kosten_logs)]

\* C27: the final log record is emitted after the final liquidation: when a
\* run of SparplanSimulator (SparplanSimulator_250819.py or Gutachten.py) has
\* ended, the cumulative tax, the cumulative exit load and the cumulative net
\* withdrawals of the last record of the log are the counters of the
\* simulator, which include the tax, the exit load and the net payout of the
\* final liquidation.
C27_FinalRecordAfterLiquidation ==
    (pc \in {"done", "s19_done"} /\ Len(monatliche_kosten_logs) > 0) =>
        Kumuliert(LetzterLog.kum) = Kumuliert(kum)


\* ------------------------------------------------------------------ C28
\* the period's steps that change the ledger have run (lines 205-219)
EndOfPeriod == pc = "log"

\* C28: epsilon pruning: at the end of every period of SparplanSimulator
\* (Gutachten.py) no lot with a value at or below the epsilon 1e-9 (zero and
\* negative values included) remains in the ledger, whichever step (fee
\* deduction, growth, accrual tax, rebalancing or withdrawal) reduced it.
C28_EpsilonPruning ==
    EndOfPeriod => \A i \in 1..Len(portfolio) : portfolio[i].value > Eps


\* ------------------------------------------------------------------ C29
\* C29: every lot in the ledger of SparplanSimulator (Gutachten.py) has a
\* cost basis amount_invested >= 0 and an already-taxed accrual
\* vorabpauschalen_bereits_versteuert >= 0 in every reachable state, after any
\* sequence of deposits, accrual taxes, partial and full sales.
C29_LotFieldsNonNegative ==
    \A i \in 1..Len(Ledger) :
        /\ Ledger[i].amount_invested >= 0
        /\ Ledger[i].vorabpauschalen_bereits_versteuert >= 0


\* a lot that was deposited, charged accrual tax and partly sold is in the
\* ledger, and a withdrawal has sold lots in full
C29_Witness ==
    /\ pc = "entnahme_loop"
    /\ loc.sold
    /\ \E i \in 1..Len(Ledger) :
           /\ Ledger[i].accrual_taxed > 0
           /\ Ledger[i].vorab_consumed > 0
           /\ Ledger[i].value > 0
           /\ Ledger[i].amount_invested > 0
           /\ Ledger[i].vorabpauschalen_bereits_versteuert >= 0


\* ------------------------------------------------------------------ C30
\* the divisors of the period's steps: the ledger total in the fee step (line
\* 349), the value of the lot in a sale (lines 463, 532) and the inflation
\* factor of the real amounts
DivisorsNonZero ==
    /\ kumulierte_inflation_factor > 0
    /\ (pc \in {"rebal_loop", "entnahme_loop"} /\ loc.sold) => loc.entry_vorher.value > 0
    /\ (pc = "wertentwicklung" /\ loc.handler = "kosten" /\ portfolio # loc.vorher) =>
           loc.depotwert_brutto > Eps

\* what a sale changes
SaleState == << portfolio, next_id, freistellungs_topf, kum, cashflows, real_cashflows,
                cashflow_dates, rebalancing_log >>

\* configurations with a degenerate ledger: no initial investment, with or
\* without contributions and extra payment, low or high fixed costs
DegenerateContributions == {0, 400}
DegenerateParamSet ==
    { [ MakeParams(vers, kosten, 0, 20, 0, "monatlich") EXCEPT
          !.monthly_investment = mi,
          !.sonderzahlung_betrag = IF sonder THEN @ ELSE 0,
          !.entnahme_plan = <<>> ] :
        vers \in BOOLEAN, kosten \in KostenProfile, mi \in DegenerateContributions,
        sonder \in BOOLEAN }

DegenerateInit ==
    /\ params \in DegenerateParamSet
    /\ monthly_return \in MonthlyReturns
    /\ monthly_inflation_rate \in InflationRates
    /\ SimulatorConstructed

SpecDegenerate == DegenerateInit /\ [][Next]_vars

ContributionPhase == month < params.beitragszahldauer * MonthsPerYear

\* the contribution step has created the lot and the cash flow of a recurring
\* contribution
ContributionMade ==
    /\ Len(portfolio') = Len(portfolio) + 1
    /\ cashflows' = Append(cashflows, -monthly_investment)

\* a withdrawal sells lots or books its cash flow
WithdrawalActs ==
    /\ pc \in {"entnahme", "entnahme_loop"}
    /\ pc' = "entnahme_loop" \/ cashflows' # cashflows \/ portfolio' # portfolio

\* C31: phase gating in SparplanSimulator (Gutachten.py): the lot of a
\* recurring contribution is created in exactly the periods with
\* month < beitragszahldauer * 12; a withdrawal sale or withdrawal cash flow
\* occurs only in periods with month >= beitragszahldauer * 12, so that no
\* period has both; in the mode 'jaehrlich' withdrawals occur only in January
\* periods.
C31_PhaseGating ==
    [][ /\ pc = "sparrate" =>
               IF ContributionPhase THEN ContributionMade
               ELSE UNCHANGED << portfolio, cashflows >>
        /\ WithdrawalActs =>
               /\ ~ContributionPhase
               /\ params.entnahme_modus = "jaehrlich" => month % MonthsPerYear = 0 ]_vars

\* a yearly withdrawal has been paid out in a January after the contribution
\* phase, in which every period brought a contribution
C31_Witness ==
    /\ pc = "log"
    /\ loc.handler = "entnahme_ende"
    /\ params.entnahme_modus = "jaehrlich"
    /\ month = params.beitragszahldauer * MonthsPerYear
    /\ Len(SelectSeq(cashflow_dates, LAMBDA d : d < month)) >= month
    /\ cashflows[Len(cashflows)] > 0


\* ------------------------------------------------------------------ C32
\* C32: checkpoint collection in run_monte_carlo_simulation: when the call
\* returns, for every checkpoint year y of the returned final_values_at_years
\* (1, 2, 5, 10, 15, 20, 25 and the horizon) and every simulation i, the
\* recorded value final_values_at_years[y][i] is the value path[12 * y] of
\* that simulation at the end of year y.
C32_CheckpointCollection ==
    pc = "mcs_done" =>
        \A y \in DOMAIN mc.final_values_at_years :
            \A i \in 1..mc.arg.num_simulations :
                LET path == mc.simulation_results[i]
                IN  /\ MonthsPerYear * y + 1 <= Len(path)
                    /\ mc.final_values_at_years[y][i] = path[MonthsPerYear * y + 1]


\* ------------------------------------------------------------------ C33
\* the cumulative fee counters that the fee step raises
FeeCounters(k) ==
    k.ter_summe + k.serviceentgelt_summe + k.stueckkosten_summe
    + k.guthabenkosten_summe + k.abschlusskosten_summe + k.verwaltungskosten_summe
    + k.ausgabeaufschlag_summe

\* the deductions that the fee step rounds per lot: one in Gutachten.py (lines
\* 348-351), up to four in SparplanSimulator_250819.py (lines 319-365)
FeeDeductions == IF pc = "kosten" THEN 1 ELSE 4

\* C33: fee accounting consistency: in every period of SparplanSimulator, in
\* Gutachten.py (_monatliche_kosten_abziehen) and in
\* SparplanSimulator_250819.py (_handle_costs), the sum of the increments that
\* the fee step makes to the cumulative fee counters equals the amount by
\* which the fee step reduces the total value of the ledger (up to the
\* rounding of the deduction of each lot), also when the ledger total is near
\* zero.
C33_FeeAccountingConsistent ==
    [][ (pc \in {"kosten", "s19_costs"}) =>
            LET gebucht == FeeCounters(kum') - FeeCounters(kum)
                abgezogen == SumValues(portfolio) - SumValues(portfolio')
            IN  (2 * Abs(gebucht - abgezogen) <= FeeDeductions * Len(portfolio))
      ]_vars


\* ------------------------------------------------------------------ C34
\* lines 139-143: draws of the monthly inflation rate, in basis points
InflationDraws == {-50, 17, 100}

\* what a finished run leaves behind
RunResult ==
    [ inflation |-> monthly_inflation_rate,
      log |-> NominalLog(monatliche_kosten_logs),
      portfolio |-> portfolio,
      freistellungs_topf |-> freistellungs_topf,
      kum |-> kum,
      cashflows |-> cashflows,
      cashflow_dates |-> cashflow_dates,
      rebalancing_log |-> rebalancing_log,
      real_cashflows |-> real_cashflows ]

\* lines 105-152: a second simulator is constructed with the params and the
\* annual return of the run that has ended; its inflation draws differ.  The
\* result of the first run is kept in mc.erster.
ZweiterLauf ==
    /\ pc = "done"
    /\ mc = NoMc
    /\ mc' = [ i |-> -1, erster |-> RunResult ]
    /\ monthly_inflation_rate' \in InflationDraws \ {monthly_inflation_rate}
    /\ month' = 0
    /\ pc' = "init"
    /\ portfolio' = <<>>
    /\ next_id' = 0
    /\ freistellungs_topf' = params.freistellungsauftrag_jahr
    /\ monthly_investment' = params.monthly_investment
    /\ kum' = KumZero
    /\ kumulierte_inflation_factor' = RateDen
    /\ death_triggered' = FALSE
    /\ abschlusskosten_rest' = 0
    /\ monatliche_abschlusskosten_fix' = 0
    /\ verrechnungs_monate_verbleibend' = 0
    /\ cashflows' = <<>>
    /\ real_cashflows' = <<>>
    /\ cashflow_dates' = <<>>
    /\ monatliche_kosten_logs' = <<>>
    /\ rebalancing_log' = <<>>
    /\ loc' = NoLoc
    /\ final' = NoFinal
    /\ UNCHANGED << params, monthly_return >>

InflationParamSet ==
    { MakeParams(vers, kosten, dy, 20, 10000, modus) :
        vers \in BOOLEAN, kosten \in KostenProfile, dy \in DeathYears,
        modus \in EntnahmeModi }

InflationInit ==
    /\ params \in InflationParamSet
    /\ monthly_return \in MonthlyReturns
    /\ monthly_inflation_rate \in InflationDraws
    /\ SimulatorConstructed

InflationNext == Next \/ ZweiterLauf

SpecInflation == InflationInit /\ [][InflationNext]_vars

IsPrefix(a, b) == Len(a) <= Len(b) /\ SubSeq(b, 1, Len(a)) = a

ZweiterLaufAktiv == "erster" \in DOMAIN mc

\* C34: inflation non-interference: two runs of SparplanSimulator
\* (Gutachten.py) with the same parameters and annual return that differ only
\* in the drawn monthly inflation rates produce the same nominal cumulative
\* counters and nominal 'Depotwert' in every period, the same nominal cash
\* flows and rebalancing log, and the same ledger and allowance bucket: the
\* second run's log, cash flows and rebalancing log are at every moment a
\* prefix of the first run's, and at its end they, the ledger, the bucket and
\* the counters are those of the first run.
C34_InflationNonInterference ==
    ZweiterLaufAktiv =>
        /\ IsPrefix(NominalLog(monatliche_kosten_logs), mc.erster.log)
        /\ IsPrefix(cashflows, mc.erster.cashflows)
        /\ IsPrefix(cashflow_dates, mc.erster.cashflow_dates)
        /\ IsPrefix(rebalancing_log, mc.erster.rebalancing_log)
        /\ pc = "done" =>
               /\ NominalLog(monatliche_kosten_logs) = mc.erster.log
               /\ cashflows = mc.erster.cashflows
               /\ rebalancing_log = mc.erster.rebalancing_log
               /\ portfolio = mc.erster.portfolio
               /\ freistellungs_topf = mc.erster.freistellungs_topf
               /\ kum = mc.erster.kum

\* a second run with other inflation draws has ended after rebalancing and
\* withdrawals, and its real cash flows differ from those of the first run
C34_Witness ==
    /\ ZweiterLaufAktiv
    /\ pc = "done"
    /\ mc.erster.inflation # monthly_inflation_rate
    /\ real_cashflows # mc.erster.real_cashflows
    /\ Len(rebalancing_log) > 0
    /\ kum.kumulierte_entnahmen > 0


\* ===================================================== the mortality event
\* the period in which _simuliere_monat calls _handle_death: the first period
\* of policy year death_year
DeathPeriod == params.death_year # 0 /\ month = params.death_year * MonthsPerYear

\* the lot _handle_death leaves behind a ledger q in period date
ReinvestedAmount(q, p) == SumValues(q) - Rate(SumValues(q), p.ruecknahmeabschlag)

\* the ledger changes at the head of a period only by the liquidation, in
\* Versicherung mode and in the death period, and then holds at most one lot,
\* of that period, worth the ledger before the event less the exit load
LiquidationAsDescribed ==
    /\ (portfolio' # portfolio) => (params.versicherung_modus /\ DeathPeriod)
    /\ (params.versicherung_modus /\ DeathPeriod) =>
          /\ Len(portfolio') <= 1
          /\ \A i \in 1..Len(portfolio') :
                /\ portfolio'[i].date = month
                /\ portfolio'[i].amount_invested = ReinvestedAmount(portfolio, params)
                /\ portfolio'[i].value = ReinvestedAmount(portfolio, params)
                /\ portfolio'[i].start_of_prev_year_value = ReinvestedAmount(portfolio, params)
                /\ portfolio'[i].vorabpauschalen_bereits_versteuert = 0
          /\ (ReinvestedAmount(portfolio, params) > 0) => (Len(portfolio') = 1)

\* the tax and the payout of the final liquidation of a Depot run are those
\* of the same ledger without a mortality year
DepotFinalUnaffected ==
    LET restwert == SumValues(portfolio)
        gewinn == Max(0, restwert - SumInvested(portfolio))
        steuer == IF FinalTaxed(restwert, gewinn, FALSE)
                  THEN FinalSteuer(portfolio, params, freistellungs_topf).steuer
                  ELSE 0
    IN  /\ kum'.total_tax_paid - kum.total_tax_paid = steuer
        /\ cashflows'[Len(cashflows')] =
               restwert - steuer - Rate(restwert, params.ruecknahmeabschlag)

\* the part of C35 about Versicherung mode and about the ledger
MortalityLedger == [][ (pc = "monat_start") => LiquidationAsDescribed ]_vars

\* C35: the mortality liquidation happens at most once, only in Versicherung
\* mode and only in the first period of policy year death_year; right after
\* it the ledger holds at most one lot, dated that period, with
\* amount_invested = value = start-of-year value = ledger total before the
\* event less the exit load and no taxed accrual; in Depot mode a configured
\* death_year changes neither the ledger nor the tax nor the payout.
C35_MortalityLiquidation ==
    [][ /\ (pc = "monat_start") => LiquidationAsDescribed
        /\ (pc = "finale" /\ ~params.versicherung_modus) => DepotFinalUnaffected ]_vars

\* a mortality liquidation has replaced a ledger of several lots by one lot
C35_Witness ==
    /\ pc = NextStage("monat_start")
    /\ params.versicherung_modus
    /\ DeathPeriod
    /\ Len(portfolio) = 1
    /\ portfolio[1].date = month
    /\ month > 0


\* ================================================== withdrawal accounting
\* the steps of SparplanSimulator that pay out: the end of _handle_withdrawals
\* and _finalisiere_simulation
WithdrawalEnds == pc = "entnahme_loop" /\ pc' # "entnahme_loop"
PaysOut == WithdrawalEnds \/ pc = "finale"

\* the log records that a step appends
NewLogs ==
    IF Len(monatliche_kosten_logs') > Len(monatliche_kosten_logs)
    THEN SubSeq(monatliche_kosten_logs', Len(monatliche_kosten_logs) + 1,
                Len(monatliche_kosten_logs'))
    ELSE <<>>

\* the counter of the net withdrawals grows by the entries that a withdrawal
\* and the final payout append to the cash flows, and by nothing else
CounterFollowsPayouts ==
    /\ kum'.kumulierte_entnahmen - kum.kumulierte_entnahmen =
           IF PaysOut THEN SumSeq(NewCashflows) ELSE 0
    /\ PaysOut => (Len(NewCashflows) = 1)
    /\ \A j \in 1..Len(NewLogs) :
           NewLogs[j].kum.kumulierte_entnahmen = kum'.kumulierte_entnahmen

\* a sale of the withdrawal loop adds the sold value less its tax and its exit
\* load to the net proceeds of the withdrawal
SaleNetProceeds ==
    (pc = "entnahme_loop" /\ pc' = "entnahme_loop" /\ loc'.sold) =>
        /\ loc'.netto_entnahme_summe - loc.netto_entnahme_summe =
               loc'.sell_value - loc'.steuer
                 - Rate(loc'.sell_value, params.ruecknahmeabschlag)
        /\ loc'.total_withdrawal_tax_this_year - loc.total_withdrawal_tax_this_year =
               loc'.steuer
        /\ loc.remaining - loc'.remaining = loc'.sell_value

\* the entry of a withdrawal is the value sold less the tax and the exit load
\* that the counters take for it (the exit load is rounded once per sale in
\* the proceeds and once per withdrawal in the counter)
WithdrawalEntry ==
    WithdrawalEnds =>
        LET sold == loc.entnahmebetrag_effektiv - loc.remaining
            tax == kum'.total_tax_paid - kum.total_tax_paid
            exit_load == kum'.ruecknahmeabschlag_summe - kum.ruecknahmeabschlag_summe
            entry == cashflows'[Len(cashflows')]
        IN  /\ entry = loc.netto_entnahme_summe
            /\ tax = loc.total_withdrawal_tax_this_year
            /\ sold = loc.entnahmebetrag_effektiv
            /\ 2 * Abs(entry - (sold - tax - exit_load)) <= loc.sales + 1

\* C36: at every log record the counter kumulierte_entnahmen is the sum of the
\* withdrawal and final-payout entries of the cash flows recorded so far (it
\* starts at 0, grows only by these entries, and a record logs its current
\* value), and the entry of a withdrawal is the value sold less the tax and
\* the exit load charged on the withdrawal.
C36_WithdrawalAccounting ==
    [][ CounterFollowsPayouts /\ SaleNetProceeds /\ WithdrawalEntry ]_vars

\* a log record after two withdrawals that carried tax and exit load
C36_Witness ==
    /\ pc = NextStage("log")
    /\ Len(monatliche_kosten_logs) > 0
    /\ LetzterLog.kum.kumulierte_entnahmen > 0
    /\ LetzterLog.kum.total_withdrawal_tax_paid > 0
    /\ LetzterLog.kum.ruecknahmeabschlag_summe > 0
    /\ Cardinality({ i \in 1..Len(cashflows) : cashflows[i] > 0 }) >= 2


\* ================================================ the parallel cash-flow lists
\* the date that a step gives to the cash flow it records: the current period,
\* and the end of the duration in _finalisiere_simulation
EventDate == IF pc = "finale" THEN params.laufzeit * MonthsPerYear ELSE month

\* the three lists have one entry per event and the dates do not fall
ListsParallel ==
    /\ Len(real_cashflows) = Len(cashflows)
    /\ Len(cashflow_dates) = Len(cashflows)
    /\ \A i \in 1..Len(cashflow_dates) : \A j \in i..Len(cashflow_dates) :
           cashflow_dates[i] <= cashflow_dates[j]

\* a step that records a cash flow appends one entry to each list, the amount,
\* the amount deflated by the current inflation factor and the date of the
\* event, and no step rewrites an entry
EntriesOfOneEvent ==
    LET n == Len(cashflows)
    IN  /\ Len(cashflows') \in {n, n + 1}
        /\ SubSeq(cashflows', 1, n) = cashflows
        /\ SubSeq(real_cashflows', 1, n) = real_cashflows
        /\ SubSeq(cashflow_dates', 1, n) = cashflow_dates
        /\ (Len(cashflows') = n + 1) =>
              /\ Len(real_cashflows') = n + 1
              /\ Len(cashflow_dates') = n + 1
              /\ real_cashflows'[n + 1] = Real(cashflows'[n + 1])
              /\ cashflow_dates'[n + 1] = EventDate

\* C37: in every reachable state cashflows, real_cashflows and cashflow_dates
\* have the same length and cashflow_dates is non-decreasing, and entry i of
\* the three lists comes from the same event: the lists grow together by the
\* amount, its deflated value and its date.
C37_ParallelCashflowLists ==
    []ListsParallel /\ [][EntriesOfOneEvent]_vars

\* contributions, withdrawals and the final payout are on the lists, at
\* several dates and with an inflation factor other than 1
C37_Witness ==
    /\ pc = "done"
    /\ Len(cashflows) >= 4
    /\ cashflow_dates[1] < cashflow_dates[Len(cashflow_dates)]
    /\ \E i \in 1..Len(cashflows) : cashflows[i] < 0
    /\ \E i \in 1..Len(cashflows) : cashflows[i] > 0 /\ real_cashflows[i] # cashflows[i]

=============================================================================
